---- MODULE Spec2Model ----
(***************************************************************************)
(* A model of LocalLLMPlayer (src/main.py): the damage estimation, the     *)
(* rule-based action filter, the viable switch filter, the fallback        *)
(* selector and the per-turn decision procedure choose_move/handle_switch. *)
(*                                                                         *)
(* The floats the program computes (powers, expected damages, effective    *)
(* speeds, weight ratios) are IEEE 754 doubles, rounded operation by       *)
(* operation as in the program. The numbers a snapshot gives and the       *)
(* literals are exact rationals <<n, d>> (d > 0, lowest terms), rounded    *)
(* where they enter a float operation; type effectiveness, a product of    *)
(* powers of two and of 0.75 and 1.25, is exact in both forms. Python      *)
(* lists and dicts are sequences; a dict is a sequence of entries in       *)
(* insertion order. None is the string "None". Prompt text and the message *)
(* history are not modelled: they only reach the decision-maker, whose     *)
(* answer is nondeterministic.                                             *)
(***************************************************************************)
EXTENDS Integers, Sequences, FiniteSets, TLC

VARIABLES
    battle,          \* the snapshot the engine currently sees
    last_move,       \* self.last_move
    just_switched,   \* self.just_switched
    pc,              \* position of the running computation
    time_waited,     \* number of 0.1 s sleeps of the running wait loop
    is_post_switch_turn,
    legal_actions,   \* candidate list of the turn
    damage_map,      \* damage map of the turn
    attempt,         \* loop index i of the retry loop
    queries,         \* number of query_ollama calls made in this turn
    model_response,  \* what the last query_ollama call returned
    order,           \* the outcome committed for this turn
    arg,             \* list argument of the function under test
    result,          \* value returned by the function under test
    memo             \* result of the previous invocation on some snapshot

vars == <<battle, last_move, just_switched, pc, time_waited, is_post_switch_turn,
          legal_actions, damage_map, attempt, queries, model_response, order,
          arg, result, memo>>

None == "None"

(***************************************************************************)
(* Sequences as Python lists                                               *)
(***************************************************************************)
Range(s) == { s[i] : i \in 1..Len(s) }

In(x, s) == \E i \in 1..Len(s) : s[i] = x

\* [x for x in s if Keep(x)]
Filter(s, Keep(_)) == SelectSeq(s, Keep)

\* list.remove(x): drops the first occurrence only
Remove(s, x) ==
    IF ~In(x, s) THEN s
    ELSE LET i == CHOOSE k \in 1..Len(s) : s[k] = x /\ \A j \in 1..(k-1) : s[j] # x
         IN  SubSeq(s, 1, i-1) \o SubSeq(s, i+1, Len(s))

\* F(v) with v computed once, as the code computes a value and then uses it
Eager(v, F(_)) == CHOOSE r \in { F(x) : x \in {v} } : TRUE

\* a list given by its elements, as a sequence value
List(f) == SubSeq(f, 1, Len(f))

\* for x in xs: if x in s: s.remove(x)
\* (each pass removes the first occurrence left, so an element of s goes iff it
\* is among the first n occurrences of its value, n the value's count in xs)
RemoveEach(s, xs) ==
    LET Removed(i) == Cardinality({k \in 1..i : s[k] = s[i]})
                          <= Cardinality({k \in 1..Len(xs) : xs[k] = s[i]})
        keep == {i \in 1..Len(s) : ~Removed(i)}
    IN  List([j \in 1..Cardinality(keep) |->
            s[CHOOSE i \in keep : Cardinality({k \in keep : k <= i}) = j]])

\* the ids "if cond: for x in xs: ... remove(x)" removes
Ids(cond, xs) == IF cond THEN xs ELSE <<>>

\* the lists of ls one after the other
Concat(ls) ==
    LET places == {p \in (1..Len(ls)) \X (1..20) : p[2] <= Len(ls[p[1]])}
        Before(p, q) == p[1] < q[1] \/ (p[1] = q[1] /\ p[2] <= q[2])
        Nth(k) == CHOOSE p \in places : Cardinality({q \in places : Before(q, p)}) = k
    IN  List([k \in 1..Cardinality(places) |-> ls[Nth(k)[1]][Nth(k)[2]]])

(***************************************************************************)
(* Exact rationals                                                         *)
(***************************************************************************)
\* the greatest common divisor of a >= 0 and b > 0
GCD(a, b) ==
    IF a = 0 THEN b
    ELSE LET small == IF a < b THEN a ELSE b
             common == {g \in 1..small : a % g = 0 /\ b % g = 0}
         IN  CHOOSE g \in common : \A h \in common : h <= g

Abs(x) == IF x < 0 THEN 0 - x ELSE x

Rat(n, d) == LET g == GCD(Abs(n), d) IN <<n \div g, d \div g>>

Num(n) == <<n, 1>>

RMul(x, y) ==
    IF x[1] = 0 \/ y[1] = 0 THEN Num(0)
    ELSE LET a == Rat(x[1], y[2])
             c == Rat(y[1], x[2])
         IN  <<a[1] * c[1], a[2] * c[2]>>

RAdd(x, y) == Rat(x[1] * y[2] + y[1] * x[2], x[2] * y[2])
RSub(x, y) == Rat(x[1] * y[2] - y[1] * x[2], x[2] * y[2])
RLt(x, y) == x[1] * y[2] < y[1] * x[2]
RLe(x, y) == x[1] * y[2] <= y[1] * x[2]
RGt(x, y) == RLt(y, x)
RGe(x, y) == RLe(y, x)
RIsZero(x) == x[1] = 0

\* the product of the factors of s (multiplication of exact values is
\* associative, so the factors are grouped in halves)
RECURSIVE RProd(_)
RProd(s) ==
    LET Halves(fs) ==
            IF fs = <<>> THEN Num(1)
            ELSE IF Len(fs) = 1 THEN fs[1]
            ELSE RMul(RProd(SubSeq(fs, 1, Len(fs) \div 2)),
                      RProd(SubSeq(fs, Len(fs) \div 2 + 1, Len(fs))))
    IN  Eager(s, Halves)

\* the factor of "if cond: x *= f"
When(cond, f) == IF cond THEN f ELSE Num(1)

(***************************************************************************)
(* IEEE 754 binary64, round to nearest, ties to even, for the non-negative *)
(* floats of the program.  A natural number is the sequence of its limbs   *)
(* in base 2^14, the least significant first; a double is a pair           *)
(* <<mantissa, exponent>> of value mantissa * 2^exponent with four limbs   *)
(* and 2^52 <= mantissa < 2^53, and 0.0 is Zero.                            *)
(***************************************************************************)
Base == 2^14

Limb(a, i) == IF i >= 1 /\ i <= Len(a) THEN a[i] ELSE 0

\* the limbs of the number whose columns (of any sign) are c
RECURSIVE LCarry(_, _, _)
LCarry(c, i, carry) ==
    IF i > Len(c) /\ carry = 0 THEN <<>>
    ELSE <<(Limb(c, i) + carry) % Base>>
         \o LCarry(c, i + 1, (Limb(c, i) + carry) \div Base)

LAdd(a, b) ==
    LCarry([i \in 1..(IF Len(a) > Len(b) THEN Len(a) ELSE Len(b)) |-> Limb(a, i) + Limb(b, i)],
           1, 0)

\* a - b for a >= b
LSub(a, b) == LCarry([i \in 1..Len(a) |-> a[i] - Limb(b, i)], 1, 0)

RECURSIVE LDot(_, _, _, _)
LDot(a, b, k, i) ==
    IF i > Len(a) THEN 0 ELSE a[i] * Limb(b, k - i + 1) + LDot(a, b, k, i + 1)

\* a * b for a and b of at most four limbs
LMul(a, b) == LCarry([k \in 1..(Len(a) + Len(b) - 1) |-> LDot(a, b, k, 1)], 1, 0)

LIsZero(a) == \A i \in 1..Len(a) : a[i] = 0

LLess(a, b) ==
    \E i \in 1..(IF Len(a) > Len(b) THEN Len(a) ELSE Len(b)) :
        /\ Limb(a, i) < Limb(b, i)
        /\ \A j \in (i + 1)..(IF Len(a) > Len(b) THEN Len(a) ELSE Len(b)) :
               Limb(a, j) = Limb(b, j)

\* the number of bits of a > 0
LBitLen(a) ==
    LET Top(t) == 14 * (t - 1) + (CHOOSE k \in 1..14 : a[t] < 2^k /\ a[t] >= 2^(k - 1))
    IN  Top(CHOOSE t \in 1..Len(a) : a[t] # 0 /\ \A u \in (t + 1)..Len(a) : a[u] = 0)

\* a \div 2^s and a * 2^s
LShr(a, s) ==
    [j \in 1..(Len(a) - (s \div 14)) |->
        (Limb(a, j + (s \div 14)) \div 2^(s % 14))
        + (Limb(a, j + (s \div 14) + 1) % 2^(s % 14)) * 2^(14 - (s % 14))]
LShl(a, s) ==
    [j \in 1..(s \div 14) |-> 0]
    \o [j \in 1..(Len(a) + 1) |->
           (Limb(a, j) % 2^(14 - (s % 14))) * 2^(s % 14)
           + (Limb(a, j - 1) \div 2^(14 - (s % 14)))]

\* bit i of a, bit 0 the least significant; a % 2^s = 0
LBit(a, i) == (Limb(a, (i \div 14) + 1) \div 2^(i % 14)) % 2
LLowZero(a, s) ==
    /\ \A j \in 1..(s \div 14) : Limb(a, j) = 0
    /\ Limb(a, (s \div 14) + 1) % 2^(s % 14) = 0

Mant(a) == <<Limb(a, 1), Limb(a, 2), Limb(a, 3), Limb(a, 4)>>

Zero == << <<0, 0, 0, 0>>, 0 >>

\* the literals and quotients of ints of the program, as exact values
Literals ==
    { <<0, 1>>, <<1, 1>>, <<2, 1>>, <<3, 1>>, <<4, 1>>, <<100, 1>>,
      <<1, 2>>, <<1, 4>>, <<3, 4>>, <<5, 4>>, <<3, 2>>, <<9, 4>>, <<5, 2>>,
      <<6, 5>>, <<13, 10>>, <<133, 100>>, <<2, 3>>,
      <<1, 24>>, <<1, 16>>, <<1, 8>>, <<1, 3>>, <<1, 5>>,
      <<7, 10>>, <<4, 5>>, <<17, 20>>, <<9, 10>>, <<19, 20>> }
    \cup { <<2 + boost, 2>> : boost \in 1..6 } \cup { <<2, 2 + boost>> : boost \in 1..6 }

\* The float expressions of the program: Val(v) is the float v, Flt(n) is
\* float(n) of an int n >= 0, Lit(r) is the float a literal or a quotient
\* of ints of exact value r denotes, Mul, Add, Sub (for a >= b) and Div are
\* a * b, a + b, a - b and a / b, and Muls(a, fs) is a * f1 * f2 * ... from
\* left to right, each factor the float the exact value fs[i] rounds to
\* ("x *= 1.5", and multiplying by 1.0 changes nothing).  Nearest(n, e, sticky)
\* is the double nearest to n * 2^e, or to a value just above it when sticky.
Val(v) == <<"val", v>>
Flt(n) == <<"int", n>>
Lit(r) == <<"lit", r>>
Mul(a, b) == <<"*", a, b>>
Add(a, b) == <<"+", a, b>>
Sub(a, b) == <<"-", a, b>>
Div(a, b) == <<"/", a, b>>
Muls(a, fs) == <<"muls", a, fs>>
Nearest(n, e, sticky) == <<"round", n, e, sticky>>

RECURSIVE Float(_)

\* the literals rounded once
Rounded == [r \in Literals |-> Float(Div(Flt(r[1]), Flt(r[2])))]

\* the next limb q of the quotient of r by d, from the estimate q down, and the
\* remainder r - q * d
RECURSIVE QFit(_, _, _)
QFit(r, d, q) ==
    LET Try(qd) == IF LLess(r, qd) THEN QFit(r, d, q - 1) ELSE <<q, Mant(LSub(r, qd))>>
    IN  Try(LMul(<<q>>, d))

\* <<the k limbs of the quotient, the remainder>> of r * Base^k by d, for
\* r < d and d of four limbs with d[4] >= Base / 2
RECURSIVE LDivide(_, _, _)
LDivide(r, d, k) ==
    LET Rest(qr) ==
            LET Join(low) == <<low[1] \o <<qr[1]>>, low[2]>>
            IN  Join(LDivide(qr[2], d, k - 1))
        Estimate(q) == IF q >= Base THEN Base - 1 ELSE q
    IN  IF k = 0 THEN << <<>>, r >>
        ELSE Rest(QFit(<<0>> \o r, d, Estimate((r[4] * Base + r[3]) \div d[4])))

\* The value of a float expression, every operation rounded to nearest, ties
\* to even; a factor that is a power of two only moves the exponent (no value
\* of the program leaves the normal range).
Float(t) ==
    LET x == Float(t[2])
        y == Float(t[3])
    IN  CASE t[1] = "val" -> t[2]
          [] t[1] = "int" ->
                Float(Nearest(<<t[2] % Base, (t[2] \div Base) % Base, t[2] \div (Base * Base)>>,
                              0, FALSE))
          [] t[1] = "lit" ->
                IF t[2] \in Literals THEN Rounded[t[2]]
                ELSE Float(Div(Flt(t[2][1]), Flt(t[2][2])))
          [] t[1] = "muls" ->
                IF t[3] = <<>> THEN x
                ELSE Float(Muls(Mul(t[2], Lit(Head(t[3]))), Tail(t[3])))
          [] t[1] = "*" ->
                IF x = Zero \/ y = Zero THEN Zero
                ELSE IF y[1] = <<0, 0, 0, 1024>> THEN <<x[1], x[2] + y[2] + 52>>
                ELSE IF x[1] = <<0, 0, 0, 1024>> THEN <<y[1], x[2] + y[2] + 52>>
                ELSE Float(Nearest(LMul(x[1], y[1]), x[2] + y[2], FALSE))
          [] t[1] = "+" ->
                IF x = Zero THEN y
                ELSE IF y = Zero THEN x
                ELSE IF x[2] < y[2] THEN Float(Add(t[3], t[2]))
                ELSE Float(Nearest(LAdd(LShl(x[1], x[2] - y[2]), y[1]), y[2], FALSE))
          [] t[1] = "-" ->
                IF y = Zero THEN x
                ELSE Float(Nearest(LSub(LShl(x[1], x[2] - y[2]), y[1]), y[2], FALSE))
          [] t[1] = "/" ->
                LET n == Mant(LShl(x[1], 3))
                    d == Mant(LShl(y[1], 3))
                    q0 == IF LLess(n, d) THEN 0 ELSE 1
                    qr == LDivide(IF q0 = 1 THEN Mant(LSub(n, d)) ELSE n, d, 4)
                IN  IF x = Zero THEN Zero
                    ELSE Float(Nearest(qr[1] \o <<q0>>, x[2] - y[2] - 56, ~LIsZero(qr[2])))
          [] t[1] = "round" ->
                LET n == t[2]
                    e == t[3]
                    s == LBitLen(n) - 53
                    up == LAdd(LShr(n, s), <<1>>)
                IN  IF LIsZero(n) THEN Zero
                    ELSE IF s <= 0 THEN <<Mant(LShl(n, 0 - s)), e + s>>
                    ELSE IF LBit(n, s - 1) = 1
                            /\ (t[4] \/ ~LLowZero(n, s - 1) \/ LBit(n, s) = 1)
                         THEN (IF Limb(up, 4) = 2048 THEN << <<0, 0, 0, 1024>>, e + s + 1 >>
                               ELSE <<Mant(up), e + s>>)
                         ELSE <<Mant(LShr(n, s)), e + s>>

FLess(x, y) ==
    IF y = Zero THEN FALSE
    ELSE IF x = Zero THEN TRUE
    ELSE x[2] < y[2] \/ (x[2] = y[2] /\ LLess(x[1], y[1]))
FLe(x, y) == ~FLess(y, x)
FGt(x, y) == FLess(y, x)
FGe(x, y) == ~FLess(x, y)

\* d.get(key, 0) on a dict of ints given as a record
GetOr0(d, key) == IF key \in DOMAIN d THEN d[key] ELSE 0

(***************************************************************************)
(* Static type table (poke_env GenData.type_chart), attacker -> defender   *)
(***************************************************************************)
SuperEffective ==
    { <<"FIRE","GRASS">>, <<"FIRE","ICE">>, <<"FIRE","BUG">>, <<"FIRE","STEEL">>,
      <<"WATER","FIRE">>, <<"WATER","GROUND">>, <<"WATER","ROCK">>,
      <<"ELECTRIC","WATER">>, <<"ELECTRIC","FLYING">>,
      <<"GRASS","WATER">>, <<"GRASS","GROUND">>, <<"GRASS","ROCK">>,
      <<"ICE","GRASS">>, <<"ICE","GROUND">>, <<"ICE","FLYING">>, <<"ICE","DRAGON">>,
      <<"FIGHTING","NORMAL">>, <<"FIGHTING","ICE">>, <<"FIGHTING","ROCK">>,
      <<"FIGHTING","DARK">>, <<"FIGHTING","STEEL">>,
      <<"POISON","GRASS">>, <<"POISON","FAIRY">>,
      <<"GROUND","FIRE">>, <<"GROUND","ELECTRIC">>, <<"GROUND","POISON">>,
      <<"GROUND","ROCK">>, <<"GROUND","STEEL">>,
      <<"FLYING","GRASS">>, <<"FLYING","FIGHTING">>, <<"FLYING","BUG">>,
      <<"PSYCHIC","FIGHTING">>, <<"PSYCHIC","POISON">>,
      <<"BUG","GRASS">>, <<"BUG","PSYCHIC">>, <<"BUG","DARK">>,
      <<"ROCK","FIRE">>, <<"ROCK","ICE">>, <<"ROCK","FLYING">>, <<"ROCK","BUG">>,
      <<"GHOST","PSYCHIC">>, <<"GHOST","GHOST">>,
      <<"DRAGON","DRAGON">>,
      <<"DARK","PSYCHIC">>, <<"DARK","GHOST">>,
      <<"STEEL","ICE">>, <<"STEEL","ROCK">>, <<"STEEL","FAIRY">>,
      <<"FAIRY","FIGHTING">>, <<"FAIRY","DRAGON">>, <<"FAIRY","DARK">> }

NotVeryEffective ==
    { <<"NORMAL","ROCK">>, <<"NORMAL","STEEL">>,
      <<"FIRE","FIRE">>, <<"FIRE","WATER">>, <<"FIRE","ROCK">>, <<"FIRE","DRAGON">>,
      <<"WATER","WATER">>, <<"WATER","GRASS">>, <<"WATER","DRAGON">>,
      <<"ELECTRIC","ELECTRIC">>, <<"ELECTRIC","GRASS">>, <<"ELECTRIC","DRAGON">>,
      <<"GRASS","FIRE">>, <<"GRASS","GRASS">>, <<"GRASS","POISON">>, <<"GRASS","FLYING">>,
      <<"GRASS","BUG">>, <<"GRASS","DRAGON">>, <<"GRASS","STEEL">>,
      <<"ICE","FIRE">>, <<"ICE","WATER">>, <<"ICE","ICE">>, <<"ICE","STEEL">>,
      <<"FIGHTING","POISON">>, <<"FIGHTING","FLYING">>, <<"FIGHTING","PSYCHIC">>,
      <<"FIGHTING","BUG">>, <<"FIGHTING","FAIRY">>,
      <<"POISON","POISON">>, <<"POISON","GROUND">>, <<"POISON","ROCK">>, <<"POISON","GHOST">>,
      <<"GROUND","GRASS">>, <<"GROUND","BUG">>,
      <<"FLYING","ELECTRIC">>, <<"FLYING","ROCK">>, <<"FLYING","STEEL">>,
      <<"PSYCHIC","PSYCHIC">>, <<"PSYCHIC","STEEL">>,
      <<"BUG","FIRE">>, <<"BUG","FIGHTING">>, <<"BUG","POISON">>, <<"BUG","FLYING">>,
      <<"BUG","GHOST">>, <<"BUG","STEEL">>, <<"BUG","FAIRY">>,
      <<"ROCK","FIGHTING">>, <<"ROCK","GROUND">>, <<"ROCK","STEEL">>,
      <<"GHOST","DARK">>,
      <<"DRAGON","STEEL">>,
      <<"DARK","FIGHTING">>, <<"DARK","DARK">>, <<"DARK","FAIRY">>,
      <<"STEEL","FIRE">>, <<"STEEL","WATER">>, <<"STEEL","ELECTRIC">>, <<"STEEL","STEEL">>,
      <<"FAIRY","FIRE">>, <<"FAIRY","POISON">>, <<"FAIRY","STEEL">> }

\* Steel resisted Ghost and Dark before generation 6
NotVeryEffectiveOld == { <<"GHOST","STEEL">>, <<"DARK","STEEL">> }

NoEffect ==
    { <<"NORMAL","GHOST">>, <<"ELECTRIC","GROUND">>, <<"FIGHTING","GHOST">>,
      <<"POISON","STEEL">>, <<"GROUND","FLYING">>, <<"PSYCHIC","DARK">>,
      <<"GHOST","NORMAL">>, <<"DRAGON","FAIRY">> }

type_chart(attacking, defending, gen) ==
    IF <<attacking, defending>> \in NoEffect THEN Num(0)
    ELSE IF <<attacking, defending>> \in SuperEffective THEN Num(2)
    ELSE IF <<attacking, defending>> \in NotVeryEffective THEN <<1, 2>>
    ELSE IF gen < 6 /\ <<attacking, defending>> \in NotVeryEffectiveOld THEN <<1, 2>>
    ELSE Num(1)

\* a variant that adds the two types' factors instead of multiplying them
type_damage_multiplier_added(attacking, types, gen) ==
    RAdd(type_chart(attacking, types[1], gen),
         IF types[2] # None THEN type_chart(attacking, types[2], gen) ELSE Num(0))

\* PokemonType.damage_multiplier(type_1, type_2): this type attacking a
\* defender of types type_1/type_2
type_damage_multiplier(attacking, types, gen) ==
    RMul(type_chart(attacking, types[1], gen),
         IF types[2] # None THEN type_chart(attacking, types[2], gen) ELSE Num(1))

\* Pokemon.damage_multiplier(type_or_move)
damage_multiplier(pokemon, attacking, gen) ==
    type_damage_multiplier(attacking, pokemon.types, gen)

(***************************************************************************)
(* Python dict, in insertion order: d[k] = v, d.get(k), d.keys()           *)
(***************************************************************************)
DictHas(d, k) == \E i \in 1..Len(d) : d[i].id = k

DictGet(d, k) == d[CHOOSE i \in 1..Len(d) : d[i].id = k]

DictSet(d, entry) ==
    IF DictHas(d, entry.id)
    THEN List([i \in 1..Len(d) |-> IF d[i].id = entry.id THEN entry ELSE d[i]])
    ELSE Append(d, entry)

DictKeys(d) == List([i \in 1..Len(d) |-> d[i].id])

(***************************************************************************)
(* calculate_move_damages                                                  *)
(***************************************************************************)
SunWeather  == {"SUNNYDAY", "DESOLATELAND"}
RainWeather == {"RAINDANCE", "PRIMORDIALSEA"}

\* "if x:" for an id x that may be None: None and '' are false
IsTruthy(x) == x # None /\ x # ""

\* "w in s" for strings: w is a substring of s
Contains(w, s) == \E i \in 1..(Len(s) - Len(w) + 1) : SubSeq(s, i, i + Len(w) - 1) = w

get_crit_damage_multiplier(pokemon, gen) ==
    IF pokemon.ability = "sniper"
    THEN (IF gen >= 6 THEN <<9, 4>> ELSE Num(3))
    ELSE (IF gen >= 6 THEN <<3, 2>> ELSE Num(2))

get_crit_chance(move, pokemon, gen) ==
    LET crit_stage == move.crit_ratio
                      + (IF IsTruthy(pokemon.ability) /\ Contains("superluck", pokemon.ability)
                         THEN 1 ELSE 0)
                      + (IF IsTruthy(pokemon.item) /\ Contains("scopelens", pokemon.item)
                         THEN 1 ELSE 0)
    IN  IF gen >= 7 THEN
            CASE crit_stage = 0 -> <<1, 24>>
              [] crit_stage = 1 -> <<1, 8>>
              [] crit_stage = 2 -> <<1, 2>>
              [] OTHER -> Num(1)
        ELSE IF gen = 6 THEN
            CASE crit_stage = 0 -> <<1, 16>>
              [] crit_stage = 1 -> <<1, 8>>
              [] crit_stage = 2 -> <<1, 2>>
              [] OTHER -> Num(1)
        ELSE
            CASE crit_stage = 0 -> <<1, 16>>
              [] crit_stage = 1 -> <<1, 8>>
              [] crit_stage = 2 -> <<1, 4>>
              [] crit_stage = 3 -> <<1, 3>>
              [] crit_stage = 4 -> <<1, 2>>
              [] OTHER -> <<1, 2>>

\* lines 216-246: the type a variable-type move is resolved to
resolved_move_type(b, move) ==
    IF move.id = "weatherball" THEN
        CASE b.weather \in SunWeather  -> "FIRE"
          [] b.weather \in RainWeather -> "WATER"
          [] b.weather = "SANDSTORM"   -> "ROCK"
          [] b.weather = "SNOW"        -> "ICE"
          [] OTHER -> move.type
    ELSE move.type

\* lines 216-246: the power a variable-power move is resolved to
resolved_power(b, move) ==
    LET ow == b.opponent_active_pokemon.weight
        aw == b.active_pokemon.weight
    IN  IF move.id = "weatherball" THEN
            (IF b.weather \in SunWeather \cup RainWeather \cup {"SANDSTORM", "SNOW"}
             THEN 100 ELSE move.base_power)
        ELSE IF move.id \in {"return", "frustration"} THEN 102
        ELSE IF move.id \in {"heavyslam", "heatcrash"} THEN
            (IF ~RIsZero(ow) /\ ~RIsZero(aw) THEN
                 LET Tier(ratio) ==
                         LET Below(bound) == FLess(ratio, Float(bound))
                         IN  IF Below(Lit(<<1, 5>>)) THEN 120
                             ELSE IF Below(Lit(<<1, 4>>)) THEN 100
                             ELSE IF Below(Div(Lit(Num(1)), Lit(Num(3)))) THEN 80
                             ELSE IF Below(Lit(<<1, 2>>)) THEN 60
                             ELSE 40
                 IN  Eager(Float(Div(Lit(ow), Lit(aw))), Tier)
             ELSE 100)
        ELSE move.base_power

get_defensive_modifier(ability, move, move_type, effectiveness, opponent) ==
    IF \/ ability = "dryskin" /\ move_type = "WATER"
       \/ ability = "flashfire" /\ move_type = "FIRE"
       \/ ability = "levitate" /\ move_type = "GROUND"
       \/ ability \in {"lightningrod", "motordrive", "voltabsorb"} /\ move_type = "ELECTRIC"
       \/ ability = "sapsipper" /\ move_type = "GRASS"
       \/ ability \in {"stormdrain", "waterabsorb"} /\ move_type = "WATER"
    THEN Num(0)
    ELSE RProd(<<
        When(ability \in {"filter", "solidrock", "prismarmor"} /\ RGt(effectiveness, Num(1)), <<3, 4>>),
        When(ability = "fluffy" /\ "contact" \in move.flags, <<1, 2>>),
        When(ability = "furcoat" /\ move.category = "PHYSICAL", <<1, 2>>),
        When(ability = "heatproof" /\ move_type = "FIRE", <<1, 2>>),
        When(ability = "icescales" /\ move.category = "SPECIAL", <<1, 2>>),
        When(ability = "multiscale" /\ opponent.current_hp_fraction = Num(1), <<1, 2>>),
        When(ability = "punkrock" /\ "sound" \in move.flags, <<1, 2>>),
        When(ability = "purifyingsalt" /\ move_type = "GHOST", <<1, 2>>),
        When(ability = "thickfat" /\ move_type \in {"FIRE", "ICE"}, <<1, 2>>),
        When(ability = "waterbubble" /\ move_type = "FIRE", <<1, 2>>),
        When(ability = "dryskin" /\ move_type = "FIRE", <<5, 4>>),
        When(ability = "fluffy" /\ move_type = "FIRE", Num(2)) >>)

\* a variant that keeps the greatest modifier
worst_case_modifier_greatest(worst, abilities, move, move_type, effectiveness, opponent) ==
    LET modifiers == {worst} \cup { get_defensive_modifier(abilities[i], move, move_type,
                                                          effectiveness, opponent) :
                                    i \in 1..Len(abilities) }
    IN  CHOOSE m \in modifiers : \A o \in modifiers : RGe(m, o)

\* lines 281-285: "if modifier < worst: worst = modifier" over the possible
\* abilities leaves the smallest of worst and the abilities' modifiers
worst_case_modifier(worst, abilities, move, move_type, effectiveness, opponent) ==
    LET modifiers == {worst} \cup { get_defensive_modifier(abilities[i], move, move_type,
                                                          effectiveness, opponent) :
                                    i \in 1..Len(abilities) }
    IN  CHOOSE m \in modifiers : \A o \in modifiers : RLe(m, o)

\* lines 278-286: the modifier the defender's ability contributes to the
\* type effectiveness
defender_ability_modifier(b, move, effectiveness) ==
    LET opponent == b.opponent_active_pokemon
    IN  IF IsTruthy(opponent.ability)
        THEN get_defensive_modifier(opponent.ability, move, resolved_move_type(b, move),
                                    effectiveness, opponent)
        ELSE worst_case_modifier(Num(1), opponent.possible_abilities, move,
                                 resolved_move_type(b, move), effectiveness, opponent)

\* lines 249-289: effectiveness after the defender's and the attacker's ability
ability_adjusted_effectiveness(b, move) ==
    LET TintedLens(eff) == IF b.active_pokemon.ability = "tintedlens" /\ RLt(eff, Num(1))
                           THEN RMul(eff, Num(2)) ELSE eff
        Defended(effectiveness) ==
            TintedLens(RMul(effectiveness, defender_ability_modifier(b, move, effectiveness)))
    IN  Defended(damage_multiplier(b.opponent_active_pokemon, move.type, b.gen))

\* lines 304-329: the attacker-ability power factor (one elif chain), as the
\* exact value of its literal
attacker_ability_boost(b, move, move_type, lm) ==
    LET me == b.active_pokemon
        a  == me.ability
        low == RLe(me.current_hp_fraction, <<1, 3>>)
    IN  CASE a = "aerilate" /\ move_type = "NORMAL" -> <<6, 5>>
          [] a = "analytic" /\ b.turn > 1 /\ lm = move.id -> <<13, 10>>
          [] a = "blaze" /\ low /\ move_type = "FIRE" -> <<3, 2>>
          [] a = "darkaura" -> <<133, 100>>
          [] a = "fairyaura" -> <<133, 100>>
          [] a = "flareboost" /\ me.status = "BRN" /\ move.category = "SPECIAL" -> <<3, 2>>
          [] a = "guts" /\ me.status # None /\ move.category = "PHYSICAL" -> <<3, 2>>
          [] a = "ironfist" /\ "punch" \in move.flags -> <<6, 5>>
          [] a = "megalauncher" /\ "pulse" \in move.flags -> <<3, 2>>
          [] a = "overgrow" /\ low /\ move_type = "GRASS" -> <<3, 2>>
          [] a = "pixilate" /\ move_type = "NORMAL" -> <<6, 5>>
          [] a = "punkrock" /\ "sound" \in move.flags -> <<13, 10>>
          [] a = "reckless" /\ move.recoil > 0 -> <<6, 5>>
          [] a = "refrigerate" /\ move_type = "NORMAL" -> <<6, 5>>
          [] a = "sandforce" /\ b.weather = "SANDSTORM"
                /\ move_type \in {"ROCK", "GROUND", "STEEL"} -> <<13, 10>>
          [] a = "solarpower" /\ b.weather \in SunWeather /\ move.category = "SPECIAL" -> <<3, 2>>
          [] a \in {"steelworker", "steelyspirit"} /\ move_type = "STEEL" -> <<3, 2>>
          [] a = "strongjaw" /\ "bite" \in move.flags -> <<3, 2>>
          [] a = "swarm" /\ low /\ move_type = "BUG" -> <<3, 2>>
          [] a = "technician" /\ move.base_power <= 60 -> <<3, 2>>
          [] a = "torrent" /\ low /\ move_type = "WATER" -> <<3, 2>>
          [] a = "toughclaws" /\ "contact" \in move.flags -> <<13, 10>>
          [] a = "toxicboost" /\ me.status \in {"PSN", "TOX"} /\ move.category = "PHYSICAL" -> <<3, 2>>
          [] a = "transistor" /\ move_type = "ELECTRIC" -> <<13, 10>>
          [] a = "waterbubble" /\ move_type = "WATER" -> Num(2)
          [] OTHER -> Num(1)

\* lines 298-339: power of a damaging move, restarted from move.base_power
\* and multiplied by one float after the other
damaging_power(b, move, move_type, is_stab, lm) ==
    LET me == b.active_pokemon
        is_grounded == "FLYING" \notin Range(me.types) /\ me.ability # "levitate"
    IN  Float(Muls(Flt(move.base_power), <<
        IF me.ability = "adaptability" /\ is_stab THEN Num(2)
        ELSE IF is_stab THEN <<3, 2>> ELSE Num(1),
        attacker_ability_boost(b, move, move_type, lm),
        When(b.weather \in SunWeather /\ move_type = "FIRE", <<3, 2>>),
        When(b.weather \in SunWeather /\ move_type = "WATER", <<1, 2>>),
        When(b.weather \in RainWeather /\ move_type = "WATER", <<3, 2>>),
        When(b.weather \in RainWeather /\ move_type = "FIRE", <<1, 2>>),
        When("ELECTRIC_TERRAIN" \in b.fields /\ move_type = "ELECTRIC" /\ is_grounded, <<13, 10>>),
        When("GRASSY_TERRAIN" \in b.fields /\ move_type = "GRASS" /\ is_grounded, <<13, 10>>),
        When("PSYCHIC_TERRAIN" \in b.fields /\ move_type = "PSYCHIC" /\ is_grounded, <<13, 10>>) >>))

\* lines 342-349, from 1.0; 1 / 1.5 is the float 2/3 rounds to
final_modifier(b, move) ==
    LET me == b.active_pokemon
        opponent == b.opponent_active_pokemon
    IN  Float(Muls(Lit(Num(1)), <<
        When(me.status = "BRN" /\ move.category = "PHYSICAL" /\ me.ability # "guts", <<1, 2>>),
        When("REFLECT" \in DOMAIN b.opponent_side_conditions /\ move.category = "PHYSICAL", <<1, 2>>),
        When("LIGHT_SCREEN" \in DOMAIN b.opponent_side_conditions /\ move.category = "SPECIAL", <<1, 2>>),
        When(b.weather = "SANDSTORM" /\ "ROCK" \in Range(opponent.types)
             /\ move.category = "SPECIAL" /\ b.gen >= 4, <<2, 3>>),
        When(b.weather = "SNOW" /\ "ICE" \in Range(opponent.types)
             /\ move.category = "PHYSICAL" /\ b.gen >= 9, <<2, 3>>) >>))

\* lines 352-361: opponent_type.damage_multiplier(ICE) is the opponent's type
\* attacking an Ice-type defender
freezedry_effectiveness(b) ==
    LET types == b.opponent_active_pokemon.types
        one(t) == IF t = None THEN Num(1)
                  ELSE IF t = "WATER" THEN Num(2)
                  ELSE type_damage_multiplier(t, <<"ICE", None>>, b.gen)
    IN  RMul(one(types[1]), one(types[2]))

\* lines 365-367: 1 + (crit_chance * (crit_multiplier - 1))
crit_damage_modifier(b, move) ==
    Float(Add(Lit(Num(1)),
              Mul(Lit(get_crit_chance(move, b.active_pokemon, b.gen)),
                  Sub(Lit(get_crit_damage_multiplier(b.active_pokemon, b.gen)),
                      Lit(Num(1))))))

\* line 364: base_damage = power * effectiveness * final_modifier
base_damage(b, move, move_type, is_stab, effectiveness, lm) ==
    Float(Mul(Mul(Val(damaging_power(b, move, move_type, is_stab, lm)), Lit(effectiveness)),
              Val(final_modifier(b, move))))

\* lines 364-376: the entry of a damaging move that has an effect;
\* expected_damage = (move.accuracy / 100.0) * base_damage * crit_damage_modifier
damaging_entry(b, move, move_type, is_stab, effectiveness, lm) ==
    [id |-> move.id,
     expected_damage |-> Float(Mul(Mul(Div(Lit(move.accuracy), Lit(Num(100))),
                                       Val(base_damage(b, move, move_type, is_stab,
                                                       effectiveness, lm))),
                                   Val(crit_damage_modifier(b, move)))),
     stab |-> is_stab, multiplier |-> effectiveness, priority |-> move.priority]

\* lines 216-376: the dict entry of one move
damage_entry(b, move, lm) ==
    LET is_stab == resolved_move_type(b, move) \in Range(b.active_pokemon.types)
        Entry(effectiveness) ==
            IF move.category = "STATUS" \/ RIsZero(effectiveness)
            THEN [id |-> move.id, expected_damage |-> Zero, stab |-> is_stab,
                  multiplier |-> effectiveness, priority |-> move.priority]
            ELSE damaging_entry(b, move, resolved_move_type(b, move), is_stab,
                                IF move.id = "freezedry" THEN freezedry_effectiveness(b)
                                ELSE effectiveness, lm)
    IN  Entry(ability_adjusted_effectiveness(b, move))

\* a variant that records damaging moves only
damage_loop_damaging_only(b, moves, lm) ==
    LET damaging == { i \in 1..Len(moves) : moves[i].category # "STATUS" }
        Nth(k) == CHOOSE i \in damaging : Cardinality({j \in damaging : j <= i}) = k
    IN  List([k \in 1..Cardinality(damaging) |-> damage_entry(b, moves[Nth(k)], lm)])

\* lines 213-376, "for move in battle.available_moves: ... damage_info[move.id]
\* = {...}": a key is inserted at the first move with that id and holds the
\* entry of the last move with that id
damage_loop(b, moves, lm) ==
    LET first == {i \in 1..Len(moves) : \A j \in 1..(i-1) : moves[j].id # moves[i].id}
        Nth(k) == CHOOSE i \in first : Cardinality({j \in first : j <= i}) = k
        Last(id) == CHOOSE i \in 1..Len(moves) :
                        /\ moves[i].id = id
                        /\ \A j \in (i+1)..Len(moves) : moves[j].id # id
    IN  List([k \in 1..Cardinality(first) |->
                 damage_entry(b, moves[Last(moves[Nth(k)].id)], lm)])

\* lm is self.last_move, which the analytic branch reads
calculate_move_damages(b, lm) ==
    IF b.available_moves = <<>> THEN <<>>
    ELSE damage_loop(b, b.available_moves, lm)

(***************************************************************************)
(* Strings.  The string functions of the program work on the sequence of   *)
(* the characters of a string.                                             *)
(***************************************************************************)
\* list(s): the characters of a string of printable ASCII characters
Chars(s) == SubSeq([i \in 1..Len(s) |-> SubSeq(s, i, i)], 1, Len(s))

\* "".join(cs)
RECURSIVE Str(_)
Str(cs) == IF cs = <<>> THEN "" ELSE Head(cs) \o Str(Tail(cs))

LowerCase == <<"a","b","c","d","e","f","g","h","i","j","k","l","m",
               "n","o","p","q","r","s","t","u","v","w","x","y","z">>
UpperCase == <<"A","B","C","D","E","F","G","H","I","J","K","L","M",
               "N","O","P","Q","R","S","T","U","V","W","X","Y","Z">>
\* A character is the one-character string where TLA+ can write it (printable
\* ASCII except the backquote, and \t \n \f \r) and the name "U+XXXX" of its
\* code point otherwise.
Printable == " !\"#$%&'()*+,-./0123456789:;<=>?@ABCDEFGHIJKLMNOPQRSTUVWXYZ[\\]^_abcdefghijklmnopqrstuvwxyz{|}~"
HexDigits == "0123456789ABCDEF"

RECURSIVE HexValue(_)
HexValue(s) ==
    IF s = "" THEN 0
    ELSE 16 * HexValue(SubSeq(s, 1, Len(s) - 1))
         + (CHOOSE i \in 1..16 : SubSeq(HexDigits, i, i) = SubSeq(s, Len(s), Len(s))) - 1

RECURSIVE HexName(_, _)
HexName(n, width) ==
    IF n = 0 /\ width <= 0 THEN ""
    ELSE HexName(n \div 16, width - 1) \o SubSeq(HexDigits, (n % 16) + 1, (n % 16) + 1)

\* ord(c)
Ord(c) ==
    IF Len(c) > 1 THEN HexValue(SubSeq(c, 3, Len(c)))
    ELSE IF c = "\t" THEN 9
    ELSE IF c = "\n" THEN 10
    ELSE IF c = "\f" THEN 12
    ELSE IF c = "\r" THEN 13
    ELSE LET i == CHOOSE j \in 1..Len(Printable) : SubSeq(Printable, j, j) = c
         IN  IF i <= 64 THEN i + 31 ELSE i + 32

\* chr(n)
Chr(n) ==
    IF n = 9 THEN "\t"
    ELSE IF n = 10 THEN "\n"
    ELSE IF n = 12 THEN "\f"
    ELSE IF n = 13 THEN "\r"
    ELSE IF n >= 32 /\ n <= 95 THEN SubSeq(Printable, n - 31, n - 31)
    ELSE IF n >= 97 /\ n <= 126 THEN SubSeq(Printable, n - 32, n - 32)
    ELSE "U+" \o HexName(n, 4)

\* the characters str.strip() removes (str.isspace)
Whitespace ==
    { "\t", "\n", "U+000B", "\f", "\r", "U+001C", "U+001D", "U+001E",
      "U+001F", " ", "U+0085", "U+00A0", "U+1680", "U+2000", "U+2001", "U+2002",
      "U+2003", "U+2004", "U+2005", "U+2006", "U+2007", "U+2008", "U+2009", "U+200A",
      "U+2028", "U+2029", "U+202F", "U+205F", "U+3000" }

\* the characters str.lower() changes, but U+0130, in runs
\* <<first, last, step, lower of the first>>
LowerRuns ==
    { <<\h0041, \h005A, 1, \h0061>>, <<\h00C0, \h00D6, 1, \h00E0>>, <<\h00D8, \h00DE, 1, \h00F8>>, <<\h0100, \h012E, 2, \h0101>>,
      <<\h0132, \h0136, 2, \h0133>>, <<\h0139, \h0147, 2, \h013A>>, <<\h014A, \h0176, 2, \h014B>>, <<\h0178, \h0178, 1, \h00FF>>,
      <<\h0179, \h017D, 2, \h017A>>, <<\h0181, \h0181, 1, \h0253>>, <<\h0182, \h0184, 2, \h0183>>, <<\h0186, \h0186, 1, \h0254>>,
      <<\h0187, \h0187, 1, \h0188>>, <<\h0189, \h018A, 1, \h0256>>, <<\h018B, \h018B, 1, \h018C>>, <<\h018E, \h018E, 1, \h01DD>>,
      <<\h018F, \h018F, 1, \h0259>>, <<\h0190, \h0190, 1, \h025B>>, <<\h0191, \h0191, 1, \h0192>>, <<\h0193, \h0193, 1, \h0260>>,
      <<\h0194, \h0194, 1, \h0263>>, <<\h0196, \h0196, 1, \h0269>>, <<\h0197, \h0197, 1, \h0268>>, <<\h0198, \h0198, 1, \h0199>>,
      <<\h019C, \h019C, 1, \h026F>>, <<\h019D, \h019D, 1, \h0272>>, <<\h019F, \h019F, 1, \h0275>>, <<\h01A0, \h01A4, 2, \h01A1>>,
      <<\h01A6, \h01A6, 1, \h0280>>, <<\h01A7, \h01A7, 1, \h01A8>>, <<\h01A9, \h01A9, 1, \h0283>>, <<\h01AC, \h01AC, 1, \h01AD>>,
      <<\h01AE, \h01AE, 1, \h0288>>, <<\h01AF, \h01AF, 1, \h01B0>>, <<\h01B1, \h01B2, 1, \h028A>>, <<\h01B3, \h01B5, 2, \h01B4>>,
      <<\h01B7, \h01B7, 1, \h0292>>, <<\h01B8, \h01B8, 1, \h01B9>>, <<\h01BC, \h01BC, 1, \h01BD>>, <<\h01C4, \h01C4, 1, \h01C6>>,
      <<\h01C5, \h01C5, 1, \h01C6>>, <<\h01C7, \h01C7, 1, \h01C9>>, <<\h01C8, \h01C8, 1, \h01C9>>, <<\h01CA, \h01CA, 1, \h01CC>>,
      <<\h01CB, \h01DB, 2, \h01CC>>, <<\h01DE, \h01EE, 2, \h01DF>>, <<\h01F1, \h01F1, 1, \h01F3>>, <<\h01F2, \h01F4, 2, \h01F3>>,
      <<\h01F6, \h01F6, 1, \h0195>>, <<\h01F7, \h01F7, 1, \h01BF>>, <<\h01F8, \h021E, 2, \h01F9>>, <<\h0220, \h0220, 1, \h019E>>,
      <<\h0222, \h0232, 2, \h0223>>, <<\h023A, \h023A, 1, \h2C65>>, <<\h023B, \h023B, 1, \h023C>>, <<\h023D, \h023D, 1, \h019A>>,
      <<\h023E, \h023E, 1, \h2C66>>, <<\h0241, \h0241, 1, \h0242>>, <<\h0243, \h0243, 1, \h0180>>, <<\h0244, \h0244, 1, \h0289>>,
      <<\h0245, \h0245, 1, \h028C>>, <<\h0246, \h024E, 2, \h0247>>, <<\h0370, \h0372, 2, \h0371>>, <<\h0376, \h0376, 1, \h0377>>,
      <<\h037F, \h037F, 1, \h03F3>>, <<\h0386, \h0386, 1, \h03AC>>, <<\h0388, \h038A, 1, \h03AD>>, <<\h038C, \h038C, 1, \h03CC>>,
      <<\h038E, \h038F, 1, \h03CD>>, <<\h0391, \h03A1, 1, \h03B1>>, <<\h03A3, \h03AB, 1, \h03C3>>, <<\h03CF, \h03CF, 1, \h03D7>>,
      <<\h03D8, \h03EE, 2, \h03D9>>, <<\h03F4, \h03F4, 1, \h03B8>>, <<\h03F7, \h03F7, 1, \h03F8>>, <<\h03F9, \h03F9, 1, \h03F2>>,
      <<\h03FA, \h03FA, 1, \h03FB>>, <<\h03FD, \h03FF, 1, \h037B>>, <<\h0400, \h040F, 1, \h0450>>, <<\h0410, \h042F, 1, \h0430>>,
      <<\h0460, \h0480, 2, \h0461>>, <<\h048A, \h04BE, 2, \h048B>>, <<\h04C0, \h04C0, 1, \h04CF>>, <<\h04C1, \h04CD, 2, \h04C2>>,
      <<\h04D0, \h052E, 2, \h04D1>>, <<\h0531, \h0556, 1, \h0561>>, <<\h10A0, \h10C5, 1, \h2D00>>, <<\h10C7, \h10C7, 1, \h2D27>>,
      <<\h10CD, \h10CD, 1, \h2D2D>>, <<\h13A0, \h13EF, 1, \hAB70>>, <<\h13F0, \h13F5, 1, \h13F8>>, <<\h1C90, \h1CBA, 1, \h10D0>>,
      <<\h1CBD, \h1CBF, 1, \h10FD>>, <<\h1E00, \h1E94, 2, \h1E01>>, <<\h1E9E, \h1E9E, 1, \h00DF>>, <<\h1EA0, \h1EFE, 2, \h1EA1>>,
      <<\h1F08, \h1F0F, 1, \h1F00>>, <<\h1F18, \h1F1D, 1, \h1F10>>, <<\h1F28, \h1F2F, 1, \h1F20>>, <<\h1F38, \h1F3F, 1, \h1F30>>,
      <<\h1F48, \h1F4D, 1, \h1F40>>, <<\h1F59, \h1F5F, 2, \h1F51>>, <<\h1F68, \h1F6F, 1, \h1F60>>, <<\h1F88, \h1F8F, 1, \h1F80>>,
      <<\h1F98, \h1F9F, 1, \h1F90>>, <<\h1FA8, \h1FAF, 1, \h1FA0>>, <<\h1FB8, \h1FB9, 1, \h1FB0>>, <<\h1FBA, \h1FBB, 1, \h1F70>>,
      <<\h1FBC, \h1FBC, 1, \h1FB3>>, <<\h1FC8, \h1FCB, 1, \h1F72>>, <<\h1FCC, \h1FCC, 1, \h1FC3>>, <<\h1FD8, \h1FD9, 1, \h1FD0>>,
      <<\h1FDA, \h1FDB, 1, \h1F76>>, <<\h1FE8, \h1FE9, 1, \h1FE0>>, <<\h1FEA, \h1FEB, 1, \h1F7A>>, <<\h1FEC, \h1FEC, 1, \h1FE5>>,
      <<\h1FF8, \h1FF9, 1, \h1F78>>, <<\h1FFA, \h1FFB, 1, \h1F7C>>, <<\h1FFC, \h1FFC, 1, \h1FF3>>, <<\h2126, \h2126, 1, \h03C9>>,
      <<\h212A, \h212A, 1, \h006B>>, <<\h212B, \h212B, 1, \h00E5>>, <<\h2132, \h2132, 1, \h214E>>, <<\h2160, \h216F, 1, \h2170>>,
      <<\h2183, \h2183, 1, \h2184>>, <<\h24B6, \h24CF, 1, \h24D0>>, <<\h2C00, \h2C2F, 1, \h2C30>>, <<\h2C60, \h2C60, 1, \h2C61>>,
      <<\h2C62, \h2C62, 1, \h026B>>, <<\h2C63, \h2C63, 1, \h1D7D>>, <<\h2C64, \h2C64, 1, \h027D>>, <<\h2C67, \h2C6B, 2, \h2C68>>,
      <<\h2C6D, \h2C6D, 1, \h0251>>, <<\h2C6E, \h2C6E, 1, \h0271>>, <<\h2C6F, \h2C6F, 1, \h0250>>, <<\h2C70, \h2C70, 1, \h0252>>,
      <<\h2C72, \h2C72, 1, \h2C73>>, <<\h2C75, \h2C75, 1, \h2C76>>, <<\h2C7E, \h2C7F, 1, \h023F>>, <<\h2C80, \h2CE2, 2, \h2C81>>,
      <<\h2CEB, \h2CED, 2, \h2CEC>>, <<\h2CF2, \h2CF2, 1, \h2CF3>>, <<\hA640, \hA66C, 2, \hA641>>, <<\hA680, \hA69A, 2, \hA681>>,
      <<\hA722, \hA72E, 2, \hA723>>, <<\hA732, \hA76E, 2, \hA733>>, <<\hA779, \hA77B, 2, \hA77A>>, <<\hA77D, \hA77D, 1, \h1D79>>,
      <<\hA77E, \hA786, 2, \hA77F>>, <<\hA78B, \hA78B, 1, \hA78C>>, <<\hA78D, \hA78D, 1, \h0265>>, <<\hA790, \hA792, 2, \hA791>>,
      <<\hA796, \hA7A8, 2, \hA797>>, <<\hA7AA, \hA7AA, 1, \h0266>>, <<\hA7AB, \hA7AB, 1, \h025C>>, <<\hA7AC, \hA7AC, 1, \h0261>>,
      <<\hA7AD, \hA7AD, 1, \h026C>>, <<\hA7AE, \hA7AE, 1, \h026A>>, <<\hA7B0, \hA7B0, 1, \h029E>>, <<\hA7B1, \hA7B1, 1, \h0287>>,
      <<\hA7B2, \hA7B2, 1, \h029D>>, <<\hA7B3, \hA7B3, 1, \hAB53>>, <<\hA7B4, \hA7C2, 2, \hA7B5>>, <<\hA7C4, \hA7C4, 1, \hA794>>,
      <<\hA7C5, \hA7C5, 1, \h0282>>, <<\hA7C6, \hA7C6, 1, \h1D8E>>, <<\hA7C7, \hA7C9, 2, \hA7C8>>, <<\hA7D0, \hA7D0, 1, \hA7D1>>,
      <<\hA7D6, \hA7D8, 2, \hA7D7>>, <<\hA7F5, \hA7F5, 1, \hA7F6>>, <<\hFF21, \hFF3A, 1, \hFF41>>, <<\h10400, \h10427, 1, \h10428>>,
      <<\h104B0, \h104D3, 1, \h104D8>>, <<\h10570, \h10594, 2, \h10597>>, <<\h10571, \h1057A, 1, \h10598>>, <<\h1057D, \h1058A, 1, \h105A4>>,
      <<\h1058D, \h10592, 1, \h105B4>>, <<\h10595, \h10595, 1, \h105BC>>, <<\h10C80, \h10CB2, 1, \h10CC0>>, <<\h118A0, \h118BF, 1, \h118C0>>,
      <<\h16E40, \h16E5F, 1, \h16E60>>, <<\h1E900, \h1E921, 1, \h1E922>> }

\* the cased characters that are not case-ignorable, in ranges
CasedRanges ==
    { <<\h0041, \h005A>>, <<\h0061, \h007A>>, <<\h00AA, \h00AA>>, <<\h00B5, \h00B5>>, <<\h00BA, \h00BA>>, <<\h00C0, \h00D6>>,
      <<\h00D8, \h00F6>>, <<\h00F8, \h01BA>>, <<\h01BC, \h01BF>>, <<\h01C4, \h0293>>, <<\h0295, \h02AF>>, <<\h0370, \h0373>>,
      <<\h0376, \h0377>>, <<\h037B, \h037D>>, <<\h037F, \h037F>>, <<\h0386, \h0386>>, <<\h0388, \h038A>>, <<\h038C, \h038C>>,
      <<\h038E, \h03A1>>, <<\h03A3, \h03F5>>, <<\h03F7, \h0481>>, <<\h048A, \h052F>>, <<\h0531, \h0556>>, <<\h0560, \h0588>>,
      <<\h10A0, \h10C5>>, <<\h10C7, \h10C7>>, <<\h10CD, \h10CD>>, <<\h10D0, \h10FA>>, <<\h10FD, \h10FF>>, <<\h13A0, \h13F5>>,
      <<\h13F8, \h13FD>>, <<\h1C80, \h1C88>>, <<\h1C90, \h1CBA>>, <<\h1CBD, \h1CBF>>, <<\h1D00, \h1D2B>>, <<\h1D6B, \h1D77>>,
      <<\h1D79, \h1D9A>>, <<\h1E00, \h1F15>>, <<\h1F18, \h1F1D>>, <<\h1F20, \h1F45>>, <<\h1F48, \h1F4D>>, <<\h1F50, \h1F57>>,
      <<\h1F59, \h1F59>>, <<\h1F5B, \h1F5B>>, <<\h1F5D, \h1F5D>>, <<\h1F5F, \h1F7D>>, <<\h1F80, \h1FB4>>, <<\h1FB6, \h1FBC>>,
      <<\h1FBE, \h1FBE>>, <<\h1FC2, \h1FC4>>, <<\h1FC6, \h1FCC>>, <<\h1FD0, \h1FD3>>, <<\h1FD6, \h1FDB>>, <<\h1FE0, \h1FEC>>,
      <<\h1FF2, \h1FF4>>, <<\h1FF6, \h1FFC>>, <<\h2102, \h2102>>, <<\h2107, \h2107>>, <<\h210A, \h2113>>, <<\h2115, \h2115>>,
      <<\h2119, \h211D>>, <<\h2124, \h2124>>, <<\h2126, \h2126>>, <<\h2128, \h2128>>, <<\h212A, \h212D>>, <<\h212F, \h2134>>,
      <<\h2139, \h2139>>, <<\h213C, \h213F>>, <<\h2145, \h2149>>, <<\h214E, \h214E>>, <<\h2160, \h217F>>, <<\h2183, \h2184>>,
      <<\h24B6, \h24E9>>, <<\h2C00, \h2C7B>>, <<\h2C7E, \h2CE4>>, <<\h2CEB, \h2CEE>>, <<\h2CF2, \h2CF3>>, <<\h2D00, \h2D25>>,
      <<\h2D27, \h2D27>>, <<\h2D2D, \h2D2D>>, <<\hA640, \hA66D>>, <<\hA680, \hA69B>>, <<\hA722, \hA76F>>, <<\hA771, \hA787>>,
      <<\hA78B, \hA78E>>, <<\hA790, \hA7CA>>, <<\hA7D0, \hA7D1>>, <<\hA7D3, \hA7D3>>, <<\hA7D5, \hA7D9>>, <<\hA7F5, \hA7F6>>,
      <<\hA7FA, \hA7FA>>, <<\hAB30, \hAB5A>>, <<\hAB60, \hAB68>>, <<\hAB70, \hABBF>>, <<\hFB00, \hFB06>>, <<\hFB13, \hFB17>>,
      <<\hFF21, \hFF3A>>, <<\hFF41, \hFF5A>>, <<\h10400, \h1044F>>, <<\h104B0, \h104D3>>, <<\h104D8, \h104FB>>, <<\h10570, \h1057A>>,
      <<\h1057C, \h1058A>>, <<\h1058C, \h10592>>, <<\h10594, \h10595>>, <<\h10597, \h105A1>>, <<\h105A3, \h105B1>>, <<\h105B3, \h105B9>>,
      <<\h105BB, \h105BC>>, <<\h10C80, \h10CB2>>, <<\h10CC0, \h10CF2>>, <<\h118A0, \h118DF>>, <<\h16E40, \h16E7F>>, <<\h1D400, \h1D454>>,
      <<\h1D456, \h1D49C>>, <<\h1D49E, \h1D49F>>, <<\h1D4A2, \h1D4A2>>, <<\h1D4A5, \h1D4A6>>, <<\h1D4A9, \h1D4AC>>, <<\h1D4AE, \h1D4B9>>,
      <<\h1D4BB, \h1D4BB>>, <<\h1D4BD, \h1D4C3>>, <<\h1D4C5, \h1D505>>, <<\h1D507, \h1D50A>>, <<\h1D50D, \h1D514>>, <<\h1D516, \h1D51C>>,
      <<\h1D51E, \h1D539>>, <<\h1D53B, \h1D53E>>, <<\h1D540, \h1D544>>, <<\h1D546, \h1D546>>, <<\h1D54A, \h1D550>>, <<\h1D552, \h1D6A5>>,
      <<\h1D6A8, \h1D6C0>>, <<\h1D6C2, \h1D6DA>>, <<\h1D6DC, \h1D6FA>>, <<\h1D6FC, \h1D714>>, <<\h1D716, \h1D734>>, <<\h1D736, \h1D74E>>,
      <<\h1D750, \h1D76E>>, <<\h1D770, \h1D788>>, <<\h1D78A, \h1D7A8>>, <<\h1D7AA, \h1D7C2>>, <<\h1D7C4, \h1D7CB>>, <<\h1DF00, \h1DF09>>,
      <<\h1DF0B, \h1DF1E>>, <<\h1E900, \h1E943>>, <<\h1F130, \h1F149>>, <<\h1F150, \h1F169>>, <<\h1F170, \h1F189>> }

\* the case-ignorable characters, in ranges
CaseIgnorableRanges ==
    { <<\h0027, \h0027>>, <<\h002E, \h002E>>, <<\h003A, \h003A>>, <<\h005E, \h005E>>, <<\h0060, \h0060>>, <<\h00A8, \h00A8>>,
      <<\h00AD, \h00AD>>, <<\h00AF, \h00AF>>, <<\h00B4, \h00B4>>, <<\h00B7, \h00B8>>, <<\h02B0, \h036F>>, <<\h0374, \h0375>>,
      <<\h037A, \h037A>>, <<\h0384, \h0385>>, <<\h0387, \h0387>>, <<\h0483, \h0489>>, <<\h0559, \h0559>>, <<\h055F, \h055F>>,
      <<\h0591, \h05BD>>, <<\h05BF, \h05BF>>, <<\h05C1, \h05C2>>, <<\h05C4, \h05C5>>, <<\h05C7, \h05C7>>, <<\h05F4, \h05F4>>,
      <<\h0600, \h0605>>, <<\h0610, \h061A>>, <<\h061C, \h061C>>, <<\h0640, \h0640>>, <<\h064B, \h065F>>, <<\h0670, \h0670>>,
      <<\h06D6, \h06DD>>, <<\h06DF, \h06E8>>, <<\h06EA, \h06ED>>, <<\h070F, \h070F>>, <<\h0711, \h0711>>, <<\h0730, \h074A>>,
      <<\h07A6, \h07B0>>, <<\h07EB, \h07F5>>, <<\h07FA, \h07FA>>, <<\h07FD, \h07FD>>, <<\h0816, \h082D>>, <<\h0859, \h085B>>,
      <<\h0888, \h0888>>, <<\h0890, \h0891>>, <<\h0898, \h089F>>, <<\h08C9, \h0902>>, <<\h093A, \h093A>>, <<\h093C, \h093C>>,
      <<\h0941, \h0948>>, <<\h094D, \h094D>>, <<\h0951, \h0957>>, <<\h0962, \h0963>>, <<\h0971, \h0971>>, <<\h0981, \h0981>>,
      <<\h09BC, \h09BC>>, <<\h09C1, \h09C4>>, <<\h09CD, \h09CD>>, <<\h09E2, \h09E3>>, <<\h09FE, \h09FE>>, <<\h0A01, \h0A02>>,
      <<\h0A3C, \h0A3C>>, <<\h0A41, \h0A42>>, <<\h0A47, \h0A48>>, <<\h0A4B, \h0A4D>>, <<\h0A51, \h0A51>>, <<\h0A70, \h0A71>>,
      <<\h0A75, \h0A75>>, <<\h0A81, \h0A82>>, <<\h0ABC, \h0ABC>>, <<\h0AC1, \h0AC5>>, <<\h0AC7, \h0AC8>>, <<\h0ACD, \h0ACD>>,
      <<\h0AE2, \h0AE3>>, <<\h0AFA, \h0AFF>>, <<\h0B01, \h0B01>>, <<\h0B3C, \h0B3C>>, <<\h0B3F, \h0B3F>>, <<\h0B41, \h0B44>>,
      <<\h0B4D, \h0B4D>>, <<\h0B55, \h0B56>>, <<\h0B62, \h0B63>>, <<\h0B82, \h0B82>>, <<\h0BC0, \h0BC0>>, <<\h0BCD, \h0BCD>>,
      <<\h0C00, \h0C00>>, <<\h0C04, \h0C04>>, <<\h0C3C, \h0C3C>>, <<\h0C3E, \h0C40>>, <<\h0C46, \h0C48>>, <<\h0C4A, \h0C4D>>,
      <<\h0C55, \h0C56>>, <<\h0C62, \h0C63>>, <<\h0C81, \h0C81>>, <<\h0CBC, \h0CBC>>, <<\h0CBF, \h0CBF>>, <<\h0CC6, \h0CC6>>,
      <<\h0CCC, \h0CCD>>, <<\h0CE2, \h0CE3>>, <<\h0D00, \h0D01>>, <<\h0D3B, \h0D3C>>, <<\h0D41, \h0D44>>, <<\h0D4D, \h0D4D>>,
      <<\h0D62, \h0D63>>, <<\h0D81, \h0D81>>, <<\h0DCA, \h0DCA>>, <<\h0DD2, \h0DD4>>, <<\h0DD6, \h0DD6>>, <<\h0E31, \h0E31>>,
      <<\h0E34, \h0E3A>>, <<\h0E46, \h0E4E>>, <<\h0EB1, \h0EB1>>, <<\h0EB4, \h0EBC>>, <<\h0EC6, \h0EC6>>, <<\h0EC8, \h0ECD>>,
      <<\h0F18, \h0F19>>, <<\h0F35, \h0F35>>, <<\h0F37, \h0F37>>, <<\h0F39, \h0F39>>, <<\h0F71, \h0F7E>>, <<\h0F80, \h0F84>>,
      <<\h0F86, \h0F87>>, <<\h0F8D, \h0F97>>, <<\h0F99, \h0FBC>>, <<\h0FC6, \h0FC6>>, <<\h102D, \h1030>>, <<\h1032, \h1037>>,
      <<\h1039, \h103A>>, <<\h103D, \h103E>>, <<\h1058, \h1059>>, <<\h105E, \h1060>>, <<\h1071, \h1074>>, <<\h1082, \h1082>>,
      <<\h1085, \h1086>>, <<\h108D, \h108D>>, <<\h109D, \h109D>>, <<\h10FC, \h10FC>>, <<\h135D, \h135F>>, <<\h1712, \h1714>>,
      <<\h1732, \h1733>>, <<\h1752, \h1753>>, <<\h1772, \h1773>>, <<\h17B4, \h17B5>>, <<\h17B7, \h17BD>>, <<\h17C6, \h17C6>>,
      <<\h17C9, \h17D3>>, <<\h17D7, \h17D7>>, <<\h17DD, \h17DD>>, <<\h180B, \h180F>>, <<\h1843, \h1843>>, <<\h1885, \h1886>>,
      <<\h18A9, \h18A9>>, <<\h1920, \h1922>>, <<\h1927, \h1928>>, <<\h1932, \h1932>>, <<\h1939, \h193B>>, <<\h1A17, \h1A18>>,
      <<\h1A1B, \h1A1B>>, <<\h1A56, \h1A56>>, <<\h1A58, \h1A5E>>, <<\h1A60, \h1A60>>, <<\h1A62, \h1A62>>, <<\h1A65, \h1A6C>>,
      <<\h1A73, \h1A7C>>, <<\h1A7F, \h1A7F>>, <<\h1AA7, \h1AA7>>, <<\h1AB0, \h1ACE>>, <<\h1B00, \h1B03>>, <<\h1B34, \h1B34>>,
      <<\h1B36, \h1B3A>>, <<\h1B3C, \h1B3C>>, <<\h1B42, \h1B42>>, <<\h1B6B, \h1B73>>, <<\h1B80, \h1B81>>, <<\h1BA2, \h1BA5>>,
      <<\h1BA8, \h1BA9>>, <<\h1BAB, \h1BAD>>, <<\h1BE6, \h1BE6>>, <<\h1BE8, \h1BE9>>, <<\h1BED, \h1BED>>, <<\h1BEF, \h1BF1>>,
      <<\h1C2C, \h1C33>>, <<\h1C36, \h1C37>>, <<\h1C78, \h1C7D>>, <<\h1CD0, \h1CD2>>, <<\h1CD4, \h1CE0>>, <<\h1CE2, \h1CE8>>,
      <<\h1CED, \h1CED>>, <<\h1CF4, \h1CF4>>, <<\h1CF8, \h1CF9>>, <<\h1D2C, \h1D6A>>, <<\h1D78, \h1D78>>, <<\h1D9B, \h1DFF>>,
      <<\h1FBD, \h1FBD>>, <<\h1FBF, \h1FC1>>, <<\h1FCD, \h1FCF>>, <<\h1FDD, \h1FDF>>, <<\h1FED, \h1FEF>>, <<\h1FFD, \h1FFE>>,
      <<\h200B, \h200F>>, <<\h2018, \h2019>>, <<\h2024, \h2024>>, <<\h2027, \h2027>>, <<\h202A, \h202E>>, <<\h2060, \h2064>>,
      <<\h2066, \h206F>>, <<\h2071, \h2071>>, <<\h207F, \h207F>>, <<\h2090, \h209C>>, <<\h20D0, \h20F0>>, <<\h2C7C, \h2C7D>>,
      <<\h2CEF, \h2CF1>>, <<\h2D6F, \h2D6F>>, <<\h2D7F, \h2D7F>>, <<\h2DE0, \h2DFF>>, <<\h2E2F, \h2E2F>>, <<\h3005, \h3005>>,
      <<\h302A, \h302D>>, <<\h3031, \h3035>>, <<\h303B, \h303B>>, <<\h3099, \h309E>>, <<\h30FC, \h30FE>>, <<\hA015, \hA015>>,
      <<\hA4F8, \hA4FD>>, <<\hA60C, \hA60C>>, <<\hA66F, \hA672>>, <<\hA674, \hA67D>>, <<\hA67F, \hA67F>>, <<\hA69C, \hA69F>>,
      <<\hA6F0, \hA6F1>>, <<\hA700, \hA721>>, <<\hA770, \hA770>>, <<\hA788, \hA78A>>, <<\hA7F2, \hA7F4>>, <<\hA7F8, \hA7F9>>,
      <<\hA802, \hA802>>, <<\hA806, \hA806>>, <<\hA80B, \hA80B>>, <<\hA825, \hA826>>, <<\hA82C, \hA82C>>, <<\hA8C4, \hA8C5>>,
      <<\hA8E0, \hA8F1>>, <<\hA8FF, \hA8FF>>, <<\hA926, \hA92D>>, <<\hA947, \hA951>>, <<\hA980, \hA982>>, <<\hA9B3, \hA9B3>>,
      <<\hA9B6, \hA9B9>>, <<\hA9BC, \hA9BD>>, <<\hA9CF, \hA9CF>>, <<\hA9E5, \hA9E6>>, <<\hAA29, \hAA2E>>, <<\hAA31, \hAA32>>,
      <<\hAA35, \hAA36>>, <<\hAA43, \hAA43>>, <<\hAA4C, \hAA4C>>, <<\hAA70, \hAA70>>, <<\hAA7C, \hAA7C>>, <<\hAAB0, \hAAB0>>,
      <<\hAAB2, \hAAB4>>, <<\hAAB7, \hAAB8>>, <<\hAABE, \hAABF>>, <<\hAAC1, \hAAC1>>, <<\hAADD, \hAADD>>, <<\hAAEC, \hAAED>>,
      <<\hAAF3, \hAAF4>>, <<\hAAF6, \hAAF6>>, <<\hAB5B, \hAB5F>>, <<\hAB69, \hAB6B>>, <<\hABE5, \hABE5>>, <<\hABE8, \hABE8>>,
      <<\hABED, \hABED>>, <<\hFB1E, \hFB1E>>, <<\hFBB2, \hFBC2>>, <<\hFE00, \hFE0F>>, <<\hFE13, \hFE13>>, <<\hFE20, \hFE2F>>,
      <<\hFE52, \hFE52>>, <<\hFE55, \hFE55>>, <<\hFEFF, \hFEFF>>, <<\hFF07, \hFF07>>, <<\hFF0E, \hFF0E>>, <<\hFF1A, \hFF1A>>,
      <<\hFF3E, \hFF3E>>, <<\hFF40, \hFF40>>, <<\hFF70, \hFF70>>, <<\hFF9E, \hFF9F>>, <<\hFFE3, \hFFE3>>, <<\hFFF9, \hFFFB>>,
      <<\h101FD, \h101FD>>, <<\h102E0, \h102E0>>, <<\h10376, \h1037A>>, <<\h10780, \h10785>>, <<\h10787, \h107B0>>, <<\h107B2, \h107BA>>,
      <<\h10A01, \h10A03>>, <<\h10A05, \h10A06>>, <<\h10A0C, \h10A0F>>, <<\h10A38, \h10A3A>>, <<\h10A3F, \h10A3F>>, <<\h10AE5, \h10AE6>>,
      <<\h10D24, \h10D27>>, <<\h10EAB, \h10EAC>>, <<\h10F46, \h10F50>>, <<\h10F82, \h10F85>>, <<\h11001, \h11001>>, <<\h11038, \h11046>>,
      <<\h11070, \h11070>>, <<\h11073, \h11074>>, <<\h1107F, \h11081>>, <<\h110B3, \h110B6>>, <<\h110B9, \h110BA>>, <<\h110BD, \h110BD>>,
      <<\h110C2, \h110C2>>, <<\h110CD, \h110CD>>, <<\h11100, \h11102>>, <<\h11127, \h1112B>>, <<\h1112D, \h11134>>, <<\h11173, \h11173>>,
      <<\h11180, \h11181>>, <<\h111B6, \h111BE>>, <<\h111C9, \h111CC>>, <<\h111CF, \h111CF>>, <<\h1122F, \h11231>>, <<\h11234, \h11234>>,
      <<\h11236, \h11237>>, <<\h1123E, \h1123E>>, <<\h112DF, \h112DF>>, <<\h112E3, \h112EA>>, <<\h11300, \h11301>>, <<\h1133B, \h1133C>>,
      <<\h11340, \h11340>>, <<\h11366, \h1136C>>, <<\h11370, \h11374>>, <<\h11438, \h1143F>>, <<\h11442, \h11444>>, <<\h11446, \h11446>>,
      <<\h1145E, \h1145E>>, <<\h114B3, \h114B8>>, <<\h114BA, \h114BA>>, <<\h114BF, \h114C0>>, <<\h114C2, \h114C3>>, <<\h115B2, \h115B5>>,
      <<\h115BC, \h115BD>>, <<\h115BF, \h115C0>>, <<\h115DC, \h115DD>>, <<\h11633, \h1163A>>, <<\h1163D, \h1163D>>, <<\h1163F, \h11640>>,
      <<\h116AB, \h116AB>>, <<\h116AD, \h116AD>>, <<\h116B0, \h116B5>>, <<\h116B7, \h116B7>>, <<\h1171D, \h1171F>>, <<\h11722, \h11725>>,
      <<\h11727, \h1172B>>, <<\h1182F, \h11837>>, <<\h11839, \h1183A>>, <<\h1193B, \h1193C>>, <<\h1193E, \h1193E>>, <<\h11943, \h11943>>,
      <<\h119D4, \h119D7>>, <<\h119DA, \h119DB>>, <<\h119E0, \h119E0>>, <<\h11A01, \h11A0A>>, <<\h11A33, \h11A38>>, <<\h11A3B, \h11A3E>>,
      <<\h11A47, \h11A47>>, <<\h11A51, \h11A56>>, <<\h11A59, \h11A5B>>, <<\h11A8A, \h11A96>>, <<\h11A98, \h11A99>>, <<\h11C30, \h11C36>>,
      <<\h11C38, \h11C3D>>, <<\h11C3F, \h11C3F>>, <<\h11C92, \h11CA7>>, <<\h11CAA, \h11CB0>>, <<\h11CB2, \h11CB3>>, <<\h11CB5, \h11CB6>>,
      <<\h11D31, \h11D36>>, <<\h11D3A, \h11D3A>>, <<\h11D3C, \h11D3D>>, <<\h11D3F, \h11D45>>, <<\h11D47, \h11D47>>, <<\h11D90, \h11D91>>,
      <<\h11D95, \h11D95>>, <<\h11D97, \h11D97>>, <<\h11EF3, \h11EF4>>, <<\h13430, \h13438>>, <<\h16AF0, \h16AF4>>, <<\h16B30, \h16B36>>,
      <<\h16B40, \h16B43>>, <<\h16F4F, \h16F4F>>, <<\h16F8F, \h16F9F>>, <<\h16FE0, \h16FE1>>, <<\h16FE3, \h16FE4>>, <<\h1AFF0, \h1AFF3>>,
      <<\h1AFF5, \h1AFFB>>, <<\h1AFFD, \h1AFFE>>, <<\h1BC9D, \h1BC9E>>, <<\h1BCA0, \h1BCA3>>, <<\h1CF00, \h1CF2D>>, <<\h1CF30, \h1CF46>>,
      <<\h1D167, \h1D169>>, <<\h1D173, \h1D182>>, <<\h1D185, \h1D18B>>, <<\h1D1AA, \h1D1AD>>, <<\h1D242, \h1D244>>, <<\h1DA00, \h1DA36>>,
      <<\h1DA3B, \h1DA6C>>, <<\h1DA75, \h1DA75>>, <<\h1DA84, \h1DA84>>, <<\h1DA9B, \h1DA9F>>, <<\h1DAA1, \h1DAAF>>, <<\h1E000, \h1E006>>,
      <<\h1E008, \h1E018>>, <<\h1E01B, \h1E021>>, <<\h1E023, \h1E024>>, <<\h1E026, \h1E02A>>, <<\h1E130, \h1E13D>>, <<\h1E2AE, \h1E2AE>>,
      <<\h1E2EC, \h1E2EF>>, <<\h1E8D0, \h1E8D6>>, <<\h1E944, \h1E94B>>, <<\h1F3FB, \h1F3FF>>, <<\hE0001, \hE0001>>, <<\hE0020, \hE007F>>,
      <<\hE0100, \hE01EF>> }

IsCased(c) == \E r \in CasedRanges : Ord(c) >= r[1] /\ Ord(c) <= r[2]
IsCaseIgnorable(c) == \E r \in CaseIgnorableRanges : Ord(c) >= r[1] /\ Ord(c) <= r[2]

LowerCode(n) ==
    IF \E r \in LowerRuns : n >= r[1] /\ n <= r[2] /\ (n - r[1]) % r[3] = 0
    THEN LET r == CHOOSE r \in LowerRuns : n >= r[1] /\ n <= r[2] /\ (n - r[1]) % r[3] = 0
         IN  r[4] + (n - r[1])
    ELSE n

\* c.lower(), a string of one character or, for U+0130, of two
LowerChar(c) ==
    IF Len(c) = 1
    THEN IF \E i \in 1..Len(UpperCase) : UpperCase[i] = c
         THEN <<LowerCase[CHOOSE i \in 1..Len(UpperCase) : UpperCase[i] = c]>>
         ELSE <<c>>
    ELSE IF c = "U+0130" THEN <<"i", "U+0307">>
    ELSE <<Chr(LowerCode(Ord(c)))>>

\* a capital sigma ends a word: the nearest character before it that is not
\* case-ignorable is cased and the nearest one after it is not
FinalSigma(cs, i) ==
    LET before == { j \in 1..(i - 1) : ~IsCaseIgnorable(cs[j]) }
        after == { j \in (i + 1)..Len(cs) : ~IsCaseIgnorable(cs[j]) }
    IN  /\ before # {}
        /\ IsCased(cs[CHOOSE j \in before : \A k \in before : k <= j])
        /\ after = {} \/ ~IsCased(cs[CHOOSE j \in after : \A k \in after : j <= k])

\* str.lower(), from character i on
RECURSIVE LowerFrom(_, _)
LowerFrom(cs, i) ==
    IF i > Len(cs) THEN <<>>
    ELSE (IF cs[i] = "U+03A3" /\ FinalSigma(cs, i) THEN <<"U+03C2">> ELSE LowerChar(cs[i]))
         \o LowerFrom(cs, i + 1)

\* str.lower()
Lower(cs) == LowerFrom(cs, 1)

\* str.strip()
LStrip(cs) ==
    LET black == { i \in 1..Len(cs) : cs[i] \notin Whitespace }
    IN  SubSeq(cs, IF black = {} THEN Len(cs) + 1
                   ELSE CHOOSE i \in black : \A j \in black : i <= j, Len(cs))
RStrip(cs) ==
    LET black == { i \in 1..Len(cs) : cs[i] \notin Whitespace }
    IN  SubSeq(cs, 1, IF black = {} THEN 0
                      ELSE CHOOSE i \in black : \A j \in black : j <= i)
Strip(cs) == Eager(LStrip(cs), RStrip)

IsPrefix(p, cs) == Len(p) <= Len(cs) /\ SubSeq(cs, 1, Len(p)) = p

\* str.replace(old, new), every occurrence, left to right
RECURSIVE Replace(_, _, _)
Replace(cs, old, new) ==
    LET Scan(s) ==
            IF s = <<>> THEN <<>>
            ELSE IF IsPrefix(old, s)
                 THEN new \o Replace(SubSeq(s, Len(old) + 1, Len(s)), old, new)
                 ELSE <<Head(s)>> \o Replace(Tail(s), old, new)
    IN  Eager(cs, Scan)

SwitchPrefix == <<"s","w","i","t","c","h","-">>

\* a.startswith("switch-")
StartsWithSwitch(a) == IsPrefix(SwitchPrefix, Chars(a))

\* a.replace("switch-", "")
StripSwitch(a) == Str(Replace(Chars(a), SwitchPrefix, <<>>))

\* p.species.lower().replace(' ', '-')
species_name(p) == Str(Replace(Lower(Chars(p.species)), <<" ">>, <<"-">>))

\* f"switch-{p.species.lower().replace(' ', '-')}"
switch_name(p) == Str(SwitchPrefix \o Chars(species_name(p)))

\* [switch_name(p) for p in battle.available_switches]
all_possible_switches(b) ==
    List([i \in 1..Len(b.available_switches) |-> switch_name(b.available_switches[i])])

\* re.sub(r"[^a-z-]", "", text.strip().lower())
sanitize_model_response(text) ==
    LET Keep(c) == c = "-" \/ \E i \in 1..Len(LowerCase) : LowerCase[i] = c
    IN  SelectSeq(Lower(Strip(text)), Keep)

\* next((x for x in s if P(x)), None): Found is "the result is not None"
Found(s, P(_)) == \E i \in 1..Len(s) : P(s[i])
First(s, P(_)) == s[CHOOSE i \in 1..Len(s) : P(s[i]) /\ \A j \in 1..(i-1) : ~P(s[j])]

(***************************************************************************)
(* Turn-Order Resolver                                                     *)
(***************************************************************************)
calculate_speed(b, pokemon, side_conditions) ==
    LET boost == GetOr0(pokemon.boosts, "spe")
    IN  Float(Muls(Flt(pokemon.stats_spe), <<
        IF boost > 0 THEN <<2 + boost, 2>>
        ELSE IF boost < 0 THEN <<2, 2 - boost>> ELSE Num(1),
        When(pokemon.ability = "slushrush" /\ b.weather \in {"HAIL", "SNOW"}, Num(2)),
        When(pokemon.ability = "swiftswim" /\ b.weather \in RainWeather, Num(2)),
        When(pokemon.ability = "chlorophyll" /\ b.weather \in SunWeather, Num(2)),
        When(pokemon.ability = "slowstart" /\ pokemon.turn_count < 5, <<1, 2>>),
        When(pokemon.status = "PAR", IF b.gen >= 7 THEN <<1, 2>> ELSE <<1, 4>>),
        When("TAILWIND" \in DOMAIN side_conditions, Num(2)) >>))

get_effective_speed(b) ==
    << calculate_speed(b, b.active_pokemon, b.side_conditions),
       calculate_speed(b, b.opponent_active_pokemon, b.opponent_side_conditions) >>

\* a variant that resolves a tie in favour of the active side
determine_who_moves_first_on_tie(b) ==
    LET Ahead(speeds) == IF "TRICK_ROOM" \in b.fields
                         THEN FLe(speeds[1], speeds[2])
                         ELSE FGe(speeds[1], speeds[2])
    IN  Ahead(get_effective_speed(b))

\* a variant that ignores the field
determine_who_moves_first_by_speed(b) ==
    LET Faster(speeds) == FGt(speeds[1], speeds[2])
    IN  Faster(get_effective_speed(b))

determine_who_moves_first(b) ==
    LET Faster(speeds) == IF "TRICK_ROOM" \in b.fields
                          THEN FLess(speeds[1], speeds[2])
                          ELSE FGt(speeds[1], speeds[2])
    IN  Faster(get_effective_speed(b))

(***************************************************************************)
(* Viable Switch Filter                                                    *)
(***************************************************************************)
\* lines 937-940 / 949-952: the Pokemon a switch option names, if any
\* p is the first Pokemon of battle.available_switches with the given name
is_pokemon_to_check(b, i, pokemon_name_to_check) ==
    /\ species_name(b.available_switches[i]) = pokemon_name_to_check
    /\ \A j \in 1..(i-1) : species_name(b.available_switches[j]) # pokemon_name_to_check

\* lines 942 / 954
is_weak_switch(b, p) ==
    LET opponent == b.opponent_active_pokemon
    IN  IF opponent.moves # <<>>
        THEN \E i \in 1..Len(opponent.moves) :
                /\ opponent.moves[i].category # "STATUS"
                /\ RGt(damage_multiplier(p, opponent.moves[i].type, b.gen), Num(1))
        ELSE \E i \in 1..2 :
                /\ opponent.types[i] # None
                /\ RGt(damage_multiplier(p, opponent.types[i], b.gen), Num(1))

\* lines 931-957
switches_to_remove(b, available_switches) ==
    LET Weak(name) == \E i \in 1..Len(b.available_switches) :
                         /\ is_pokemon_to_check(b, i, name)
                         /\ is_weak_switch(b, b.available_switches[i])
        Bad(s) == Weak(StripSwitch(s))
    IN  SelectSeq(available_switches, Bad)

\* a variant that lists the kept options in reverse order
filter_suboptimal_switches_reversed(b, available_switches) ==
    LET Backwards(kept) == List([i \in 1..Len(kept) |-> kept[Len(kept) + 1 - i]])
        Without(removed) ==
            LET Kept(s) == ~In(s, removed)
            IN  IF Len(removed) = Len(available_switches)
                THEN available_switches
                ELSE Backwards(SelectSeq(available_switches, Kept))
    IN  IF available_switches = <<>> THEN <<>>
        ELSE Without(switches_to_remove(b, available_switches))

\* a variant without the return of the original list
filter_suboptimal_switches_strict(b, available_switches) ==
    LET Without(removed) ==
            LET Kept(s) == ~In(s, removed)
            IN  SelectSeq(available_switches, Kept)
    IN  Without(switches_to_remove(b, available_switches))

\* lines 922-964
filter_suboptimal_switches(b, available_switches) ==
    LET Without(removed) ==
            LET Kept(s) == ~In(s, removed)
            IN  IF Len(removed) = Len(available_switches)
                THEN available_switches
                ELSE SelectSeq(available_switches, Kept)
    IN  IF available_switches = <<>> THEN <<>>
        ELSE Without(switches_to_remove(b, available_switches))

(***************************************************************************)
(* Overrides 1 and 2                                                       *)
(***************************************************************************)
\* [move_id for move_id, info in damage_info.items() if expected_damage >= t]
ko_moves(damage_info, threshold) ==
    LET Strong(e) == FGe(e.expected_damage, Float(Lit(threshold)))
    IN  DictKeys(SelectSeq(damage_info, Strong))

\* lines 1055-1077
step_on_throat(b, la, damage_info) ==
    LET Prioritize(ko) == IF ko # <<>> THEN ko ELSE la
    IN  IF ~determine_who_moves_first(b) THEN la
        ELSE Prioritize(ko_moves(damage_info, <<5, 2>>))

\* lines 1094-1104
has_ko_threat(b) ==
    LET me == b.active_pokemon
        opponent == b.opponent_active_pokemon
    IN  IF opponent.moves # <<>>
        THEN \E i \in 1..Len(opponent.moves) :
                damage_multiplier(me, opponent.moves[i].type, b.gen) = Num(4)
        ELSE \E i \in 1..2 :
                /\ opponent.types[i] # None
                /\ RGt(damage_multiplier(me, opponent.types[i], b.gen), Num(1))

\* lines 1079-1130
mortal_peril_alert(b, la, damage_info) ==
    LET Force(ko, viable_switch_names) == IF ko = <<>> THEN viable_switch_names ELSE ko
    IN  IF ~has_ko_threat(b) THEN la
        ELSE IF ~determine_who_moves_first(b)
        THEN filter_suboptimal_switches(b, all_possible_switches(b))
        ELSE Force(ko_moves(damage_info, Num(2)),
                   filter_suboptimal_switches(b, all_possible_switches(b)))

(***************************************************************************)
(* Action Filter Pipeline: the rules of filter_suboptimal_moves            *)
(***************************************************************************)
\* dict.get(k, 0) on a side-condition dict
SideGet(sc, k) == IF k \in DOMAIN sc THEN sc[k] ELSE 0

\* the ids of the <<condition, id>> pairs whose condition holds, in order
CondIds(pairs) ==
    LET T(p) == p[1]
        kept == SelectSeq(pairs, T)
    IN  List([i \in 1..Len(kept) |-> kept[i][2]])

\* next((m for m in battle.available_moves if m.id == move_id), None) is a
\* move of the given category test
MoveIs(b, move_id, Test(_)) ==
    LET Same(m) == m.id = move_id
    IN  Found(b.available_moves, Same) /\ Test(First(b.available_moves, Same))

IsStatusMove(m) == m.category = "STATUS"
IsNotStatusMove(m) == m.category # "STATUS"

\* [a for a in actions if a.startswith("switch-")]
switch_actions(fa) == SelectSeq(fa, StartsWithSwitch)

healing_moves == <<"healorder", "milkdrink", "moonlight", "morningsun", "recover", "rest",
                   "roost", "shoreup", "slackoff", "softboiled", "swallow", "synthesis">>

\* a variant of Rule 1 that needs the HP fraction to be above the threshold
Rule1_above(b) ==
    Ids(RGt(b.active_pokemon.current_hp_fraction, <<66, 100>>), healing_moves)

\* Rules 1 to 36 that only remove: RuleN is the list of ids rule N removes
\* from filtered_actions (each id once, where it is present)
Rule1(b) ==
    Ids(RGe(b.active_pokemon.current_hp_fraction, <<66, 100>>), healing_moves)

\* a variant of Rule 2 that lets a hazard be set once more at its cap
Rule2_past_cap(b) ==
    LET opp_sc == b.opponent_side_conditions
        my_sc  == b.side_conditions
    IN  CondIds(<<
            <<"STEALTH_ROCK" \in DOMAIN opp_sc, "stealthrock">>,
            <<SideGet(opp_sc, "SPIKES") > 3, "spikes">>,
            <<SideGet(opp_sc, "TOXIC_SPIKES") > 2, "toxicspikes">>,
            <<"STICKY_WEB" \in DOMAIN opp_sc, "stickyweb">>,
            <<"REFLECT" \in DOMAIN my_sc, "reflect">>,
            <<"LIGHT_SCREEN" \in DOMAIN my_sc, "lightscreen">>,
            <<"AURORA_VEIL" \in DOMAIN my_sc, "auroraveil">>,
            <<"TAILWIND" \in DOMAIN my_sc, "tailwind">>,
            <<"TRICK_ROOM" \in b.fields, "trickroom">> >>)

Rule2(b) ==
    LET opp_sc == b.opponent_side_conditions
        my_sc  == b.side_conditions
    IN  CondIds(<<
            <<"STEALTH_ROCK" \in DOMAIN opp_sc, "stealthrock">>,
            <<SideGet(opp_sc, "SPIKES") >= 3, "spikes">>,
            <<SideGet(opp_sc, "TOXIC_SPIKES") >= 2, "toxicspikes">>,
            <<"STICKY_WEB" \in DOMAIN opp_sc, "stickyweb">>,
            <<"REFLECT" \in DOMAIN my_sc, "reflect">>,
            <<"LIGHT_SCREEN" \in DOMAIN my_sc, "lightscreen">>,
            <<"AURORA_VEIL" \in DOMAIN my_sc, "auroraveil">>,
            <<"TAILWIND" \in DOMAIN my_sc, "tailwind">>,
            <<"TRICK_ROOM" \in b.fields, "trickroom">> >>)

Rule3(b) ==
    LET my_side_hazards ==
            DOMAIN b.side_conditions
                \cap {"STEALTH_ROCK", "SPIKES", "TOXIC_SPIKES", "STICKY_WEB"} # {}
        opp_any == \E c \in DOMAIN b.opponent_side_conditions :
                       b.opponent_side_conditions[c] # 0
    IN  IF my_side_hazards THEN <<>>
        ELSE CondIds(<<
                <<TRUE, "rapidspin">>, <<TRUE, "mortalspin">>, <<~opp_any, "defog">> >>)

Rule4(b) ==
    LET boosts == b.active_pokemon.boosts
    IN  CondIds(<<
            <<GetOr0(boosts, "atk") >= 2, "swordsdance">>,
            <<GetOr0(boosts, "spa") >= 2, "nastyplot">>,
            <<GetOr0(boosts, "def") >= 2, "irondefense">>,
            <<GetOr0(boosts, "def") >= 2, "acidarmor">>,
            <<GetOr0(boosts, "spd") >= 2, "amnesia">>,
            <<GetOr0(boosts, "spe") >= 2, "agility">>,
            <<GetOr0(boosts, "spe") >= 2, "rockpolish">>,
            <<GetOr0(boosts, "atk") >= 1 /\ GetOr0(boosts, "def") >= 1, "bulkup">>,
            <<GetOr0(boosts, "atk") >= 1 /\ GetOr0(boosts, "def") >= 1, "coil">>,
            <<GetOr0(boosts, "atk") >= 1 /\ GetOr0(boosts, "spe") >= 1, "dragondance">>,
            <<GetOr0(boosts, "spa") >= 1 /\ GetOr0(boosts, "spd") >= 1, "calmmind">>,
            <<GetOr0(boosts, "spa") >= 1 /\ GetOr0(boosts, "spd") >= 1 /\ GetOr0(boosts, "spe") >= 1, "quiverdance">>,
            <<(GetOr0(boosts, "atk") >= 2 \/ GetOr0(boosts, "spa") >= 2) /\ GetOr0(boosts, "spe") >= 2, "shellsmash">>,
            <<"GHOST" \notin Range(b.active_pokemon.types)
                /\ GetOr0(boosts, "atk") >= 1 /\ GetOr0(boosts, "def") >= 1, "curse">> >>)

\* a variant of Rule 5 that fires for a move without any effect only
Rule5Fires_immune(b) ==
    /\ Len(b.available_moves) = 1
    /\ RIsZero(damage_multiplier(b.opponent_active_pokemon, b.available_moves[1].type, b.gen))

\* Rule 5 (lines 503-519): locked into one move that is not very effective
Rule5Fires(b) ==
    /\ Len(b.available_moves) = 1
    /\ RLt(damage_multiplier(b.opponent_active_pokemon, b.available_moves[1].type, b.gen), Num(1))

\* lines 509-519 (and 691-700): the viable switches, or filtered_actions when
\* there is none
Rule5Result(fa, viable_switches) == IF viable_switches = <<>> THEN fa ELSE viable_switches

\* Rules 6 and 7 (lines 522-541)
Rule6(b, damage_info) ==
    LET Hit(e) == e.expected_damage = Zero /\ MoveIs(b, e.id, IsNotStatusMove)
    IN  DictKeys(SelectSeq(damage_info, Hit))

\* a variant of Rule 7 with half the threshold
Rule7_quarter(b, damage_info) ==
    LET Hit(e) == FLe(e.expected_damage, Float(Lit(<<1, 4>>))) /\ MoveIs(b, e.id, IsNotStatusMove)
    IN  DictKeys(SelectSeq(damage_info, Hit))

Rule7(b, damage_info) ==
    LET Hit(e) == FLe(e.expected_damage, Float(Lit(<<1, 2>>))) /\ MoveIs(b, e.id, IsNotStatusMove)
    IN  DictKeys(SelectSeq(damage_info, Hit))

sleep_moves == <<"darkvoid", "grasswhistle", "hypnosis", "lovelykiss", "sing",
                 "sleeppowder", "spore", "yawn">>

Rule8(b) ==
    Ids(\E i \in 1..Len(b.opponent_team) : b.opponent_team[i].status = "SLP", sleep_moves)

trapping_effects == {"BIND", "CLAMP", "FIRE_SPIN", "INFESTATION", "SAND_TOMB",
                     "SNAP_TRAP", "THUNDER_CAGE", "WHIRLPOOL", "WRAP"}
trapping_moves == <<"bind", "clamp", "firespin", "infestation", "sandtomb",
                    "snaptrap", "thundercage", "whirlpool", "wrap">>

Rule9(b) ==
    LET effects == b.opponent_active_pokemon.effects
    IN  CondIds(<<
            <<"TAUNT" \in effects, "taunt">>,
            <<"ENCORE" \in effects, "encore">>,
            <<"LEECH_SEED" \in effects, "leechseed">> >>)
        \o Ids(effects \cap trapping_effects # {}, trapping_moves)

\* Rule 10 (lines 574-595)
Rule10Returns(b, la) ==
    /\ b.active_pokemon.status = "SLP"
    /\ ~(b.active_pokemon.status_counter <= 1 /\ In("sleeptalk", la))

\* filtered_actions after Rule 10 when it does not return
Rule10(b, fa, la) ==
    IF b.active_pokemon.status = "SLP"
    THEN <<"sleeptalk">> \o switch_actions(fa)
    ELSE Remove(fa, "sleeptalk")

Rule11(b) ==
    Ids(\/ b.active_pokemon.item = None
        \/ /\ IsTruthy(b.opponent_active_pokemon.ability)
           /\ Contains("sticky-hold", b.opponent_active_pokemon.ability),
        <<"trick", "switcheroo">>)

Rule12(lm) == Ids(lm = "wish", <<"wish">>)

status_moves == <<"glare", "poisonpowder", "poisongas", "stunspore", "thunderwave", "toxic",
                  "willowisp", "darkvoid", "grasswhistle", "hypnosis", "lovelykiss", "sing",
                  "sleeppowder", "spore", "yawn">>

Rule13(b) ==
    LET opponent == b.opponent_active_pokemon
        types == Range(opponent.types)
    IN  Ids(opponent.status # None, status_moves) \o CondIds(<<
            <<"ELECTRIC" \in types /\ b.gen >= 6, "thunderwave">>,
            <<"FIRE" \in types, "willowisp">>,
            <<("POISON" \in types \/ "STEEL" \in types)
                /\ b.active_pokemon.ability # "corrosion", "toxic">>,
            <<("POISON" \in types \/ "STEEL" \in types)
                /\ b.active_pokemon.ability # "corrosion", "poisonpowder">>,
            <<"GRASS" \in types, "leechseed">> >>)

Rule13_5(b) ==
    LET opponent == b.opponent_active_pokemon
        types == Range(opponent.types)
        possible_abilities ==
            IF IsTruthy(opponent.ability) THEN {opponent.ability}
            ELSE Range(opponent.possible_abilities)
    IN  IF possible_abilities = {} THEN <<>>
        ELSE Concat(<<
                Ids("overcoat" \in possible_abilities \/ ("GRASS" \in types /\ b.gen >= 6),
                    <<"poisonpowder", "sleeppowder", "spore", "stunspore">>),
                Ids(possible_abilities \cap {"insomnia", "vitalsprit"} # {}, sleep_moves),
                Ids("waterveil" \in possible_abilities, <<"willowisp">>),
                Ids("limber" \in possible_abilities \/ ("ELECTRIC" \in types /\ b.gen >= 6),
                    <<"thunderwave", "glare", "nuzzle">>),
                Ids("oblivious" \in possible_abilities /\ b.gen >= 6, <<"taunt">>) >>)

Rule14(b) ==
    Ids(RGe(b.active_pokemon.current_hp_fraction,
            b.opponent_active_pokemon.current_hp_fraction), <<"painsplit">>)

\* Rule 15 (lines 672-700)
CountMoves(b, category) ==
    Cardinality({ i \in 1..Len(b.available_moves) : b.available_moves[i].category = category })

Rule15Fires(b) ==
    LET atk_boost == GetOr0(b.active_pokemon.boosts, "atk")
        spa_boost == GetOr0(b.active_pokemon.boosts, "spa")
        physical_moves == CountMoves(b, "PHYSICAL")
        special_moves == CountMoves(b, "SPECIAL")
    IN  IF physical_moves > special_moves /\ atk_boost <= -2 THEN TRUE
        ELSE IF special_moves > physical_moves /\ spa_boost <= -2 THEN TRUE
        ELSE physical_moves = special_moves /\ (atk_boost <= -2 \/ spa_boost <= -2)

Rule16(b) ==
    Ids(Len(b.team) = 1, <<"batonpass", "teleport", "flipturn", "voltswitch">>)

protect_moves == <<"protect", "detect", "spikyshield", "kingsshield", "banefulbunker",
                   "obstruct", "burningbulwark", "silktrap">>

Rule17(lm) == Ids(In(lm, protect_moves), protect_moves)

\* Rule 18 (lines 720-752); lines 741-745 only log and remove nothing
Rule18(b) ==
    Concat(<<
        Ids(b.weather \notin SunWeather, <<"solarbeam", "solarblade">>),
        Ids(b.weather \notin RainWeather, <<"electroshot">>),
        Ids(b.weather \notin {"HAIL", "SNOW", "SNOWSCAPE"}, <<"auroraveil">>),
        Ids(b.weather \notin {"RAINDANCE", "PRIMORDIALSEA", "DELTASTREAM", "DESOLATELAND",
                              "HAIL", "SANDSTORM", "SNOW", "SNOWSCAPE", "SUNNYDAY"},
            <<"weatherball">>) >>)

Rule20(b, damage_info) ==
    Ids(/\ ~IsTruthy(b.opponent_active_pokemon.item)
        /\ (DictHas(damage_info, "knockoff")
               => RLe(DictGet(damage_info, "knockoff").multiplier, Num(1))),
        <<"knockoff">>)

\* Rules 21 and 23 (lines 760-769, 777-787): drop every status move
DropStatusMoves(b, fa) ==
    LET Keep(a) == ~(~StartsWithSwitch(a) /\ MoveIs(b, a, IsStatusMove))
    IN  SelectSeq(fa, Keep)

Rule21(b, fa) ==
    IF "SUBSTITUTE" \in b.opponent_active_pokemon.effects THEN DropStatusMoves(b, fa) ELSE fa

Rule22(b) ==
    Ids("SUBSTITUTE" \in b.active_pokemon.effects, <<"substitute">>)

Rule23(b, fa) ==
    IF /\ b.active_pokemon.ability = "prankster"
       /\ b.gen >= 7
       /\ "DARK" \in Range(b.opponent_active_pokemon.types)
    THEN DropStatusMoves(b, fa) ELSE fa

\* Rule 24 (lines 790-803)
Rule24Fires(b) == b.active_pokemon.ability = "truant" /\ b.active_pokemon.must_recharge

Rule24Result(fa) == switch_actions(fa)

recharge_moves == <<"hyperbeam", "gigaimpact", "rockwrecker", "frenzyplant", "blastburn",
                    "hydrocannon", "roaroftime", "eternabeam">>

Rule25 == recharge_moves

\* Rule 26, scenario 1 (lines 814-850): encored into a single move
Rule26EncoreForces(b, damage_info) ==
    LET me == b.active_pokemon
        locked_move == b.available_moves[1]
        opp_sc == b.opponent_side_conditions
    IN  /\ "ENCORE" \in me.effects
        /\ Len(b.available_moves) = 1
        /\ IF locked_move.category # "STATUS"
           THEN /\ DictHas(damage_info, locked_move.id)
                /\ RLt(DictGet(damage_info, locked_move.id).multiplier, Num(1))
           ELSE \/ /\ DOMAIN locked_move.boosts # {}
                   /\ \A stat \in DOMAIN locked_move.boosts : GetOr0(me.boosts, stat) >= 6
                \/ locked_move.id = "stealthrock" /\ "STEALTH_ROCK" \in DOMAIN opp_sc
                \/ locked_move.id = "spikes" /\ SideGet(opp_sc, "SPIKES") >= 3
                \/ locked_move.id = "stickyweb" /\ "STICKY_WEB" \in DOMAIN opp_sc

\* Rule 26, scenario 2 (lines 853-869): taunted
all_attacks_are_bad(b, damage_info) ==
    \A i \in 1..Len(b.available_moves) :
        /\ DictHas(damage_info, b.available_moves[i].id)
        /\ RLt(DictGet(damage_info, b.available_moves[i].id).multiplier, Num(1))

Rule26TauntForces(b, damage_info, viable_switches) ==
    /\ "TAUNT" \in b.active_pokemon.effects
    /\ IF b.available_moves # <<>>
       THEN all_attacks_are_bad(b, damage_info) /\ viable_switches # <<>>
       ELSE TRUE

\* Rule 27 (lines 872-891)
Rule27Forces(b, viable_switches) ==
    /\ Str(Lower(Chars(b.opponent_active_pokemon.species))) \in {"blissey", "chansey"}
    /\ ~\E i \in 1..Len(b.available_moves) : b.available_moves[i].category = "PHYSICAL"
    /\ viable_switches # <<>>

Rule29(lm) == Ids(lm = "yawn", <<"yawn">>)

Rule30(b) ==
    Ids(~(/\ RLt(b.active_pokemon.current_hp_fraction, <<34, 100>>)
          /\ RGt(b.opponent_active_pokemon.current_hp_fraction, <<66, 100>>)),
        <<"explosion", "selfdestruct", "mistyexplosion">>)

Rule33(b) ==
    Ids(~\E i \in 1..Len(b.team) : b.team[i].status # None /\ ~b.team[i].fainted,
        <<"healbell", "aromatherapy">>)

Rule36(lm) == Ids(lm = "trickroom", <<"trickroom">>)

(***************************************************************************)
(* filter_suboptimal_moves: the rules in program order.  Each stage takes  *)
(* filtered_actions as left by the stage before it; a stage that returns   *)
(* ends the pipeline.  viable_switches is the value every returning rule   *)
(* computes, filter_suboptimal_switches of all possible switches.          *)
(***************************************************************************)
\* lines 391-395
after_overrides(b, la, damage_info) ==
    LET Throat(a0) == IF RLt(b.opponent_active_pokemon.current_hp_fraction, <<1, 2>>)
                      THEN step_on_throat(b, a0, damage_info) ELSE a0
    IN  Eager(mortal_peril_alert(b, la, damage_info), Throat)

\* lines 790-920, fa is filtered_actions after Rule 23
from_rule24(b, fa, viable_switches, damage_info, lm) ==
    IF Rule24Fires(b) THEN Rule24Result(fa)
    ELSE IF Rule26EncoreForces(b, damage_info) /\ viable_switches # <<>> THEN viable_switches
    ELSE IF Rule26TauntForces(b, damage_info, viable_switches) THEN viable_switches
    ELSE IF Rule27Forces(b, viable_switches) THEN viable_switches
    ELSE RemoveEach(fa, Concat(<<Rule25, Rule29(lm), Rule30(b), Rule33(b), Rule36(lm)>>))

\* lines 672-787, fa is filtered_actions after Rule 14
from_rule15(b, fa, viable_switches, damage_info, lm) ==
    LET Go(fa23) == from_rule24(b, fa23, viable_switches, damage_info, lm)
        R23(fa22) == Rule23(b, fa22)
        R22(fa21) == RemoveEach(fa21, Rule22(b))
        R21(fa20) == Rule21(b, fa20)
    IN  IF Rule15Fires(b) THEN Rule5Result(fa, viable_switches)
        ELSE Eager(Eager(Eager(Eager(
                RemoveEach(fa, Concat(<<Rule16(b), Rule17(lm), Rule18(b),
                                        Rule20(b, damage_info)>>)),
                R21), R22), R23), Go)

\* lines 572-669, fa is filtered_actions after Rule 9
from_rule10(b, fa, viable_switches, la, damage_info, lm) ==
    LET Go(fa14) == from_rule15(b, fa14, viable_switches, damage_info, lm)
    IN  IF Rule10Returns(b, la) THEN switch_actions(fa)
        ELSE Eager(RemoveEach(Rule10(b, fa, la),
                              Concat(<<Rule11(b), Rule12(lm), Rule13(b), Rule13_5(b),
                                       Rule14(b)>>)),
                   Go)

\* lines 502-570, fa is filtered_actions after Rule 4
from_rule5(b, fa, viable_switches, la, damage_info, lm) ==
    LET Go(fa9) == from_rule10(b, fa9, viable_switches, la, damage_info, lm)
    IN  IF Rule5Fires(b) THEN Rule5Result(fa, viable_switches)
        ELSE Eager(RemoveEach(fa, Concat(<<Rule6(b, damage_info), Rule7(b, damage_info),
                                           Rule8(b), Rule9(b)>>)),
                   Go)

\* lines 397-920, a0 is filtered_actions after the two overrides
from_rule1(b, a0, viable_switches, la, damage_info, lm) ==
    LET Go(fa4) == from_rule5(b, fa4, viable_switches, la, damage_info, lm)
    IN  Eager(RemoveEach(a0, Concat(<<Rule1(b), Rule2(b), Rule3(b), Rule4(b)>>)), Go)

\* lm is self.last_move, which Rules 12, 17, 29 and 36 read
filter_suboptimal_moves(b, la, damage_info, lm) ==
    LET Rules(a0) ==
            LET Go(viable_switches) == from_rule1(b, a0, viable_switches, la, damage_info, lm)
            IN  Eager(filter_suboptimal_switches(b, all_possible_switches(b)), Go)
    IN  Eager(after_overrides(b, la, damage_info), Rules)

(***************************************************************************)
(* Committed outcomes and the Fallback Selector                            *)
(***************************************************************************)
\* self.create_order(x): a move, a switch, or (x is None) the pass signal;
\* "error" stands for an exception leaving the turn
Order(kind, id, by) == [kind |-> kind, id |-> id, by |-> by]
NoOrder == Order("none", None, None)

\* a variant that draws from the legal orders even when there is none
choose_random_move_raising(b) ==
    LET legal == { Order("move", b.available_moves[i].id, "random") :
                     i \in 1..Len(b.available_moves) }
                 \cup { Order("switch", b.available_switches[i].species, "random") :
                           i \in 1..Len(b.available_switches) }
    IN  IF legal # {} THEN legal ELSE { Order("error", None, "random") }

\* Player.choose_random_move (poke_env): a random legal order, or the
\* default order when there is none
choose_random_move(b) ==
    LET moves == { Order("move", b.available_moves[i].id, "random") :
                     i \in 1..Len(b.available_moves) }
        switches == { Order("switch", b.available_switches[i].species, "random") :
                        i \in 1..Len(b.available_switches) }
    IN  IF moves \cup switches # {} THEN moves \cup switches
        ELSE { Order("pass", "default", "random") }

\* a variant that takes the first entry whatever its damage
best_damage_move_first(damage_info) ==
    IF damage_info # <<>> THEN damage_info[1].id ELSE None

\* a variant that compares with >=, so that the last entry of the greatest
\* damage wins
best_damage_move_last(damage_info) ==
    LET damage(i) == damage_info[i].expected_damage
        Best(i) == /\ \A j \in 1..(i-1) : FLe(damage(j), damage(i))
                   /\ \A j \in (i+1)..Len(damage_info) : FLess(damage(j), damage(i))
    IN  IF \E i \in 1..Len(damage_info) : Best(i)
        THEN damage_info[CHOOSE i \in 1..Len(damage_info) : Best(i)].id
        ELSE None

\* lines 970-977: max_damage starts at -1, below every expected damage, and
\* an entry replaces the best one when its damage is greater, so the loop ends
\* on the first entry of the greatest damage
best_damage_move(damage_info) ==
    LET damage(i) == damage_info[i].expected_damage
        Best(i) == /\ \A j \in 1..(i-1) : FLess(damage(j), damage(i))
                   /\ \A j \in (i+1)..Len(damage_info) : FLe(damage(j), damage(i))
    IN  IF \E i \in 1..Len(damage_info) : Best(i)
        THEN damage_info[CHOOSE i \in 1..Len(damage_info) : Best(i)].id
        ELSE None

\* a variant without the "if best_move_id:" test, which reads best_move.id
\* of no move at all
best_move_order_unguarded(b, best_move_id, lm) ==
    LET Same(m) == m.id = best_move_id
    IN  IF Found(b.available_moves, Same)
        THEN { [order |-> Order("move", best_move_id, "fallback"), last_move |-> best_move_id] }
        ELSE { [order |-> Order("error", None, "fallback"), last_move |-> lm] }

\* lines 979-986: the order returned for best_move_id and the value of
\* self.last_move afterwards
best_move_order(b, best_move_id, lm) ==
    LET Same(m) == m.id = best_move_id
    IN  IF ~IsTruthy(best_move_id)
        THEN { [order |-> o, last_move |-> lm] : o \in choose_random_move(b) }
        ELSE IF Found(b.available_moves, Same)
        THEN { [order |-> Order("move", best_move_id, "fallback"), last_move |-> best_move_id] }
        ELSE { [order |-> Order("error", None, "fallback"), last_move |-> lm] }

\* a variant that ignores the damage map
select_random_move(b, lm) ==
    { [order |-> o, last_move |-> lm] : o \in choose_random_move(b) }

\* The possible results of select_best_damage_move
select_best_damage_move(b, lm) ==
    best_move_order(b, best_damage_move(calculate_move_damages(b, lm)), lm)

\* a variant that sends the active Pokemon back in
choose_random_switch_active(b, lm) ==
    IF b.available_switches # <<>>
    THEN { [order |-> Order("switch", b.active_pokemon.species, "random_switch"),
            last_move |-> None] }
    ELSE select_best_damage_move(b, lm)

\* The possible results of choose_random_switch
choose_random_switch(b, lm) ==
    IF b.available_switches # <<>>
    THEN { [order |-> Order("switch", b.available_switches[i].species, "random_switch"),
            last_move |-> None] : i \in 1..Len(b.available_switches) }
    ELSE select_best_damage_move(b, lm)

(***************************************************************************)
(* The decision-maker                                                      *)
(***************************************************************************)
NoResponse == [outcome |-> None, none |-> TRUE, text |-> <<>>]

\* a variant that reports a failed run as a response
query_ollama_raising(run) ==
    IF run.outcome = "ok"
    THEN [outcome |-> "ok", none |-> FALSE, text |-> Lower(Strip(run.stdout))]
    ELSE [outcome |-> run.outcome, none |-> FALSE, text |-> <<"e", "r", "r", "o", "r">>]

\* query_ollama: run is what happened to the subprocess, a record
\* [outcome, stdout]; everything but a zero exit gives None
query_ollama(run) ==
    IF run.outcome = "ok"
    THEN [outcome |-> "ok", none |-> FALSE, text |-> Lower(Strip(run.stdout))]
    ELSE [outcome |-> run.outcome, none |-> TRUE, text |-> <<>>]

\* "if model_response:"
Truthy(response) == ~response.none /\ response.text # <<>>

\* a variant that accepts every answer
response_in_any(cleaned, actions) == cleaned # <<>>

\* "cleaned_response in actions"
response_in(cleaned, actions) == \E i \in 1..Len(actions) : Chars(actions[i]) = cleaned

\* the entry of actions the cleaned response is equal to
response_action(cleaned, actions) ==
    actions[CHOOSE i \in 1..Len(actions) : Chars(actions[i]) = cleaned]

max_retries == 3

\* lines 1001-1005 and 1144-1147: "time_waited < max_wait" after n additions
\* of 0.1 in binary floating point: thirty additions reach 3.0000000000000013,
\* ten additions reach 0.9999999999999999
moves_wait_sleeps == 30
force_switch_wait_sleeps == 11

(***************************************************************************)
(* Snapshots: the moves, Pokemon and battles the model draws from          *)
(***************************************************************************)
NoBoosts == [stat \in {"atk", "def", "spa", "spd", "spe"} |-> 0]

\* a MoveView: accuracy is poke_env's Move.accuracy, a fraction of 1
Move(id, base_power, type, category, accuracy, flags) ==
    [id |-> id, base_power |-> base_power, type |-> type, category |-> category,
     accuracy |-> accuracy, priority |-> 0, crit_ratio |-> 0, flags |-> flags,
     boosts |-> <<>>, recoil |-> 0]

tackle       == Move("tackle", 40, "NORMAL", "PHYSICAL", Num(1), {"contact"})
surf         == Move("surf", 90, "WATER", "SPECIAL", Num(1), {})
earthquake   == Move("earthquake", 100, "GROUND", "PHYSICAL", Num(1), {})
thunderbolt  == Move("thunderbolt", 90, "ELECTRIC", "SPECIAL", Num(1), {})
flamethrower == Move("flamethrower", 90, "FIRE", "SPECIAL", Num(1), {})
icebeam      == Move("icebeam", 90, "ICE", "SPECIAL", Num(1), {})
shadowball   == Move("shadowball", 80, "GHOST", "SPECIAL", Num(1), {})
freezedry    == Move("freezedry", 70, "ICE", "SPECIAL", Num(1), {})
weatherball  == Move("weatherball", 50, "NORMAL", "SPECIAL", Num(1), {})
hypervoice   == Move("hypervoice", 90, "NORMAL", "SPECIAL", Num(1), {"sound"})
hyperbeam    == Move("hyperbeam", 150, "NORMAL", "SPECIAL", <<9, 10>>, {})
explosion    == Move("explosion", 250, "NORMAL", "PHYSICAL", Num(1), {})
stoneedge    == [Move("stoneedge", 100, "ROCK", "PHYSICAL", <<4, 5>>, {}) EXCEPT !.crit_ratio = 2]
return       == Move("return", 0, "NORMAL", "PHYSICAL", Num(1), {"contact"})
heavyslam    == Move("heavyslam", 0, "STEEL", "PHYSICAL", Num(1), {"contact"})
recover      == Move("recover", 0, "NORMAL", "STATUS", Num(1), {})
sleeptalk    == Move("sleeptalk", 0, "NORMAL", "STATUS", Num(1), {})
thunderwave  == Move("thunderwave", 0, "ELECTRIC", "STATUS", <<9, 10>>, {})
swordsdance  == [Move("swordsdance", 0, "NORMAL", "STATUS", Num(1), {})
                    EXCEPT !.boosts = [stat \in {"atk"} |-> 2]]

\* a PokemonView
Pokemon(species, types, ability, stats_spe) ==
    [species |-> species, types |-> types, current_hp_fraction |-> Num(1),
     ability |-> ability, possible_abilities |-> <<>>, item |-> None,
     status |-> None, status_counter |-> 0, boosts |-> NoBoosts, effects |-> {},
     must_recharge |-> FALSE, weight |-> Num(100), stats_spe |-> stats_spe,
     turn_count |-> 1, fainted |-> FALSE, moves |-> <<>>]

snorlax  == Pokemon("snorlax", <<"NORMAL", None>>, "thickfat", 30)
golem    == Pokemon("golem", <<"ROCK", "GROUND">>, "sturdy", 45)
gengar   == Pokemon("gengar", <<"GHOST", "POISON">>, "cursedbody", 110)
lapras   == Pokemon("lapras", <<"WATER", "ICE">>, "waterabsorb", 60)
blissey  == Pokemon("blissey", <<"NORMAL", None>>, "naturalcure", 55)
porygon2 == Pokemon("porygon2", <<"NORMAL", None>>, "trace", 60)
slaking  == Pokemon("slaking", <<"NORMAL", None>>, "truant", 100)
jynx     == Pokemon("jynx", <<"ICE", "PSYCHIC">>, "oblivious", 95)

\* an opposing Pokemon: its ability is unknown until revealed
Opposing(p, possible_abilities, moves) ==
    [p EXCEPT !.ability = None, !.possible_abilities = possible_abilities, !.moves = moves]

TeamMember(p) == [status |-> p.status, fainted |-> p.fainted]

\* a BattleSnapshot
Battle(me, opponent, available_moves, available_switches) ==
    [gen |-> 9, turn |-> 1, weather |-> None, fields |-> {},
     side_conditions |-> <<>>, opponent_side_conditions |-> <<>>,
     active_pokemon |-> me, opponent_active_pokemon |-> opponent,
     available_moves |-> available_moves, available_switches |-> available_switches,
     team |-> <<TeamMember(me)>>
              \o List([i \in 1..Len(available_switches) |-> TeamMember(available_switches[i])]),
     opponent_team |-> <<TeamMember(opponent)>>,
     force_switch |-> FALSE]

\* the largest turn number of a snapshot
MaxTurn == 2

TurnOpponents ==
    { Opposing(lapras, <<"waterabsorb", "shellarmor">>, <<>>),
      [Opposing(gengar, <<"cursedbody">>, <<shadowball>>)
          EXCEPT !.current_hp_fraction = <<2, 5>>] }

TurnActives == { snorlax, golem }

TurnMovesets ==
    { <<>>, <<tackle, earthquake, recover>>, <<hyperbeam, stoneedge>> }

TurnBenches == { <<>>, <<blissey, porygon2>> }

\* the requests the server can send: a move request (possibly with the moves
\* not loaded yet), a recharge turn, or a forced replacement
TurnPool ==
    { [Battle(me, opp, moves, bench) EXCEPT !.turn = MaxTurn] :
        me \in TurnActives, opp \in TurnOpponents,
        moves \in TurnMovesets, bench \in TurnBenches }
    \cup { [Battle([me EXCEPT !.must_recharge = TRUE], opp, <<hyperbeam, stoneedge>>, bench)
              EXCEPT !.turn = MaxTurn] :
            me \in { snorlax, slaking }, opp \in TurnOpponents, bench \in TurnBenches }
    \cup { [Battle([snorlax EXCEPT !.fainted = TRUE, !.current_hp_fraction = Num(0)],
                   opp, <<>>, bench)
              EXCEPT !.force_switch = TRUE, !.turn = MaxTurn] :
            opp \in TurnOpponents, bench \in TurnBenches \cup { <<golem, lapras>> } }

\* what the snapshot may have become after a sleep: the awaited request
LaterSnapshots(b) ==
    { n \in TurnPool : /\ ~n.force_switch
                       /\ n.available_moves # <<>>
                       /\ n.opponent_active_pokemon = b.opponent_active_pokemon
                       /\ n.available_switches = b.available_switches
                       /\ ~n.active_pokemon.must_recharge }

(***************************************************************************)
(* What the decision-maker subprocess can do on one query                  *)
(***************************************************************************)
UpperChar(c) ==
    IF \E i \in 1..Len(LowerCase) : LowerCase[i] = c
    THEN UpperCase[CHOOSE i \in 1..Len(LowerCase) : LowerCase[i] = c]
    ELSE c

\* " Tackle!\n" for "tackle"
Decorated(cs) ==
    IF cs = <<>> THEN <<" ", "\n">>
    ELSE <<" ", UpperChar(Head(cs))>> \o Tail(cs) \o <<"!", "\n">>

\* "tac\u212ale" for "tackle", the Kelvin sign for k, between a no-break space
\* and a form feed
Garbled(cs) ==
    <<"U+00A0">> \o [i \in 1..Len(cs) |-> IF cs[i] = "k" THEN "U+212A" ELSE cs[i]] \o <<"\f">>

\* the words a reply may consist of: every legal action of the snapshot, the
\* bare names of the bench, and a move that is not available
ReplyWords(b) ==
    { b.available_moves[i].id : i \in 1..Len(b.available_moves) }
    \cup { switch_name(b.available_switches[i]) : i \in 1..Len(b.available_switches) }
    \cup { species_name(b.available_switches[i]) : i \in 1..Len(b.available_switches) }
    \cup { "surf" }

Runs(b) ==
    { [outcome |-> k, stdout |-> <<>>] : k \in {"nonzero", "notfound", "timeout", "crash"} }
    \cup { [outcome |-> "ok", stdout |-> <<>>] }
    \cup { [outcome |-> "ok", stdout |-> Chars(w)] : w \in ReplyWords(b) }
    \cup { [outcome |-> "ok", stdout |-> Decorated(Chars(w))] : w \in ReplyWords(b) }
    \cup { [outcome |-> "ok", stdout |-> Garbled(Chars(w))] : w \in ReplyWords(b) \cup {""} }

(***************************************************************************)
(* choose_move and handle_switch as a process: one action per stretch of   *)
(* code between two suspension points or decision-maker queries            *)
(***************************************************************************)
Turn(pc2, tw, post, att, q, ord, lm, js) ==
    /\ pc' = pc2
    /\ time_waited' = tw
    /\ is_post_switch_turn' = post
    /\ attempt' = att
    /\ queries' = q
    /\ order' = ord
    /\ last_move' = lm
    /\ just_switched' = js
    /\ UNCHANGED <<arg, result, memo>>

\* "return order": the turn's outcome is committed
Commit(ord, lm, js, q) ==
    Turn(IF ord.kind = "error" THEN "error" ELSE "done",
         0, is_post_switch_turn, attempt, q, ord, lm, js)

\* the turn goes on at pc2
Goto(pc2, tw, post) ==
    Turn(pc2, tw, post, attempt, queries, order, last_move, just_switched)

\* [species_name(p) for p in battle.available_switches] (line 1237)
available_switches_names(b) ==
    List([i \in 1..Len(b.available_switches) |-> species_name(b.available_switches[i])])

\* lines 1133-1157, and handle_switch up to its query (lines 1237-1257)
ChooseMoveStart ==
    /\ pc = "idle"
    /\ UNCHANGED <<battle, damage_map, model_response>>
    /\ IF battle.active_pokemon.must_recharge
       THEN /\ Commit(Order("pass", None, "recharge"), last_move, just_switched, queries)
            /\ UNCHANGED legal_actions
       ELSE IF battle.force_switch /\ just_switched
       THEN Goto("force_wait", 0, is_post_switch_turn) /\ UNCHANGED legal_actions
       ELSE IF battle.force_switch
       THEN /\ legal_actions' =
                  filter_suboptimal_switches(battle, available_switches_names(battle))
            /\ IF legal_actions' = <<>>
               THEN \E o \in choose_random_move(battle) :
                       Commit(o, last_move, just_switched, queries)
               ELSE Goto("switch_query", time_waited, is_post_switch_turn)
       ELSE Goto("moves_wait", 0, just_switched) /\ UNCHANGED legal_actions

\* lines 1147-1149: one sleep of the force_switch wait
ForceSwitchSleep ==
    /\ pc = "force_wait"
    /\ battle.force_switch /\ time_waited < force_switch_wait_sleeps
    /\ battle' \in {battle} \cup LaterSnapshots(battle)
    /\ Goto(pc, time_waited + 1, is_post_switch_turn)
    /\ UNCHANGED <<legal_actions, damage_map, model_response>>

\* lines 1151-1160: after the force_switch wait
ForceSwitchWaitOver ==
    /\ pc = "force_wait"
    /\ ~(battle.force_switch /\ time_waited < force_switch_wait_sleeps)
    /\ UNCHANGED <<battle, legal_actions, damage_map, model_response>>
    /\ IF battle.force_switch
       THEN \E o \in choose_random_move(battle) :
               Commit(o, last_move, just_switched, queries)
       ELSE Goto("moves_wait", 0, just_switched)

\* wait_for_moves, lines 1005-1007: one sleep
wait_for_moves_pending(b, tw) ==
    b.available_moves = <<>> /\ ~b.force_switch /\ tw < moves_wait_sleeps

WaitForMovesSleep ==
    /\ pc = "moves_wait"
    /\ wait_for_moves_pending(battle, time_waited)
    /\ battle' \in {battle} \cup LaterSnapshots(battle)
    /\ Goto(pc, time_waited + 1, is_post_switch_turn)
    /\ UNCHANGED <<legal_actions, damage_map, model_response>>

\* [move.id for move in battle.available_moves] (line 1170)
legal_moves(b) == List([i \in 1..Len(b.available_moves) |-> b.available_moves[i].id])

\* lines 1172-1184: the candidate list of the turn
candidate_list(b, post, dm, lm) ==
    IF post THEN filter_suboptimal_moves(b, legal_moves(b), dm, lm)
    ELSE filter_suboptimal_moves(b, legal_moves(b), dm, lm)
         \o filter_suboptimal_switches(b, all_possible_switches(b))

\* lines 1169-1199
BuildCandidates ==
    /\ pc = "moves_wait"
    /\ ~wait_for_moves_pending(battle, time_waited)
    /\ UNCHANGED <<battle, model_response>>
    /\ damage_map' = calculate_move_damages(battle, last_move)
    /\ legal_actions' = candidate_list(battle, is_post_switch_turn, damage_map', last_move)
    /\ IF legal_actions' = <<>>
       THEN \E r \in select_best_damage_move(battle, last_move) :
               Commit(r.order, r.last_move, just_switched /\ ~is_post_switch_turn, queries)
       ELSE Turn("query", 0, is_post_switch_turn, 0, queries, order, last_move,
                 just_switched /\ ~is_post_switch_turn)

\* lines 1212-1226: the action the valid answer names, when it is found
answer_order(b, cleaned, lm, js) ==
    LET IsSwitch(p) == Chars(species_name(p)) = Replace(cleaned, SwitchPrefix, <<>>)
        IsMove(m) == Chars(m.id) = cleaned
    IN  IF IsPrefix(SwitchPrefix, cleaned)
        THEN { [order |-> Order("switch", b.available_switches[i].species, "llm"),
                last_move |-> None, just_switched |-> TRUE] :
               i \in { k \in 1..Len(b.available_switches) :
                          /\ IsSwitch(b.available_switches[k])
                          /\ \A j \in 1..(k-1) : ~IsSwitch(b.available_switches[j]) } }
        ELSE { [order |-> Order("move", b.available_moves[i].id, "llm"),
                last_move |-> b.available_moves[i].id, just_switched |-> js] :
               i \in { k \in 1..Len(b.available_moves) :
                          /\ IsMove(b.available_moves[k])
                          /\ \A j \in 1..(k-1) : ~IsMove(b.available_moves[j]) } }

\* lines 1206-1226: what a response leads to, the set of (at most one)
\* committed results; none when the pass of the loop ends in a retry
answers(b, response, cleaned, la, lm, js) ==
    LET Checked(cleaned_response) ==
            IF Truthy(response) /\ response_in(cleaned_response, la)
            THEN answer_order(b, cleaned_response, lm, js)
            ELSE {}
    IN  Eager(cleaned, Checked)

\* lines 1203-1230: one pass of the retry loop
QueryDecisionMaker ==
    /\ pc = "query"
    /\ attempt < max_retries
    /\ UNCHANGED <<battle, legal_actions, damage_map>>
    /\ \E run \in Runs(battle) :
        /\ model_response' = query_ollama(run)
        /\ LET Act(committed) ==
                   IF committed = {}
                   THEN Turn("query", time_waited, is_post_switch_turn, attempt + 1,
                             queries + 1, order, last_move, just_switched)
                   ELSE \E r \in committed :
                           Commit(r.order, r.last_move, r.just_switched, queries + 1)
           IN  Act(answers(battle, model_response',
                           sanitize_model_response(model_response'.text),
                           legal_actions, last_move, just_switched))

\* lines 1232-1233: the loop is over without a valid answer
RetriesExhausted ==
    /\ pc = "query"
    /\ attempt >= max_retries
    /\ UNCHANGED <<battle, legal_actions, damage_map, model_response>>
    /\ \E r \in select_best_damage_move(battle, last_move) :
          Commit(r.order, r.last_move, just_switched, queries)

\* handle_switch, lines 1263-1269: the order for a valid answer; next()
\* without default raises when no switch has the name
switch_answer_order(b, cleaned, lm, js) ==
    LET IsSwitch(p) == Chars(species_name(p)) = cleaned
    IN  IF Found(b.available_switches, IsSwitch)
        THEN [order |-> Order("switch", First(b.available_switches, IsSwitch).species, "llm"),
              last_move |-> None, just_switched |-> TRUE]
        ELSE [order |-> Order("error", None, "llm"), last_move |-> lm, just_switched |-> js]

\* handle_switch, lines 1260-1273: the single query of a forced replacement
HandleSwitchQuery ==
    /\ pc = "switch_query"
    /\ UNCHANGED <<battle, legal_actions, damage_map>>
    /\ \E run \in Runs(battle) :
        /\ model_response' = query_ollama(run)
        /\ LET Replace_(r) == Commit(r.order, r.last_move, r.just_switched, queries + 1)
               Act(cleaned) ==
                   IF Truthy(model_response') /\ response_in(cleaned, legal_actions)
                   THEN Replace_(switch_answer_order(battle, cleaned, last_move, just_switched))
                   ELSE \E r \in choose_random_switch(battle, last_move) :
                           Commit(r.order, r.last_move, just_switched, queries + 1)
           IN  Act(sanitize_model_response(model_response'.text))

\* the server's next request arrives and choose_move is called again
NextRequest ==
    /\ pc = "done"
    /\ battle' \in TurnPool
    /\ legal_actions' = <<>>
    /\ damage_map' = <<>>
    /\ model_response' = NoResponse
    /\ Turn("idle", 0, FALSE, 0, 0, NoOrder, last_move, just_switched)

TurnStep ==
    \/ ChooseMoveStart
    \/ ForceSwitchSleep
    \/ ForceSwitchWaitOver
    \/ WaitForMovesSleep
    \/ BuildCandidates
    \/ QueryDecisionMaker
    \/ RetriesExhausted
    \/ HandleSwitchQuery

Init ==
    /\ battle \in TurnPool
    /\ last_move = None
    /\ just_switched = FALSE
    /\ pc = "idle"
    /\ time_waited = 0
    /\ is_post_switch_turn = FALSE
    /\ legal_actions = <<>>
    /\ damage_map = <<>>
    /\ attempt = 0
    /\ queries = 0
    /\ model_response = NoResponse
    /\ order = NoOrder
    /\ arg = <<>>
    /\ result = <<>>
    /\ memo = <<>>

Next ==
    \/ ChooseMoveStart
    \/ ForceSwitchSleep
    \/ ForceSwitchWaitOver
    \/ WaitForMovesSleep
    \/ BuildCandidates
    \/ QueryDecisionMaker
    \/ RetriesExhausted
    \/ HandleSwitchQuery
    \/ NextRequest

Spec == Init /\ [][Next]_vars

\* where choose_move is in its turn
position == <<pc, time_waited, attempt>>

\* choose_move moves on; every step of TurnStep changes the position
TurnMovesOn ==
    /\ pc \notin {"done", "error"}
    /\ pc' \in {"force_wait", "moves_wait", "query", "switch_query", "done", "error"}
    /\ time_waited' \in 0..moves_wait_sleeps
    /\ attempt' \in 0..max_retries

\* choose_move runs to completion: every sleep returns and every query ends
\* (the subprocess is bounded by its 60 s timeout), so a turn that is not
\* over keeps moving on
LiveSpec == Spec /\ WF_position(TurnMovesOn)

\* the outcomes a turn may commit
Outcomes == {"move", "switch", "pass"}

\* what can go wrong with the decision-maker subprocess
Failures == {"nonzero", "notfound", "timeout", "crash"}

\* C1: every call of choose_move ends and commits exactly one outcome, a
\* move, a switch or the pass signal, whatever the snapshot and the
\* decision-maker do; the waits take at most 30 and 11 sleeps and the
\* decision-maker is asked at most 3 times
C1_TurnCommitsOneOutcome ==
    /\ [](pc # "error")
    /\ [](pc = "done" => order.kind \in Outcomes)
    /\ [](pc # "done" => order = NoOrder)
    /\ [](/\ pc = "moves_wait" => time_waited <= moves_wait_sleeps
          /\ pc = "force_wait" => time_waited <= force_switch_wait_sleeps
          /\ attempt <= max_retries
          /\ queries <= max_retries)
    /\ [][pc \notin {"done", "error"} => position' # position]_vars
    /\ (pc = "idle" ~> pc = "done")

\* the lingering force_switch wait ran out and the pass signal was committed
C1_Witness ==
    /\ pc = "done"
    /\ battle.force_switch
    /\ just_switched
    /\ order = Order("pass", "default", "random")

\* C2: an order is committed as the decision-maker's choice only if the
\* sanitized response is equal to an entry of the candidate list of the turn,
\* and the order is for that entry
C2_OnlyCandidatesAccepted ==
    pc = "done" /\ order.by = "llm" =>
        LET Accepted(cleaned) ==
                \E i \in 1..Len(legal_actions) :
                    /\ Chars(legal_actions[i]) = cleaned
                    /\ order.kind \in {"move", "switch"}
                    /\ order.kind = "move" => order.id = legal_actions[i]
                    /\ order.kind = "switch" =>
                          Lower(Chars(order.id)) = Replace(cleaned, SwitchPrefix, <<>>)
        IN  Accepted(sanitize_model_response(model_response.text))

\* a switch was accepted from a reply that had to be cleaned
C2_Witness ==
    /\ pc = "done"
    /\ order.by = "llm"
    /\ order.kind = "switch"
    /\ ~battle.force_switch
    /\ sanitize_model_response(model_response.text) # model_response.text

\* the committed move has the greatest expected damage of the damage map
commits_best_move ==
    /\ order.kind = "move"
    /\ order.by = "fallback"
    /\ \E i \in 1..Len(battle.available_moves) : battle.available_moves[i].id = order.id
    /\ DictHas(damage_map, order.id)
    /\ \A i \in 1..Len(damage_map) :
          FLe(damage_map[i].expected_damage, DictGet(damage_map, order.id).expected_damage)

\* the retry loop of choose_move ended without an accepted answer
retries_exhausted == pc = "done" /\ legal_actions # <<>> /\ attempt = max_retries

\* C3 as stated: after three answers outside a non-empty candidate list
\* there is no fourth query and the available move of the highest expected
\* damage is committed
C3_FallbackCommitsBestMove ==
    retries_exhausted => queries = max_retries /\ commits_best_move

\* C3, amended: ... provided a move is available; without one the fallback
\* commits what choose_random_move returns
C3_FallbackCommitsBestOrRandom ==
    retries_exhausted =>
        /\ queries = max_retries
        /\ battle.available_moves # <<>> => commits_best_move
        /\ battle.available_moves = <<>> => order \in choose_random_move(battle)

\* three answers outside the list, then the fallback's move
C3_Witness ==
    /\ retries_exhausted
    /\ Truthy(model_response)
    /\ ~response_in(sanitize_model_response(model_response.text), legal_actions)
    /\ Len(battle.available_moves) >= 2
    /\ order.by = "fallback"

\* C4: a timeout, crash, missing executable or non-zero exit is an absent
\* response, never an error of the turn; it uses up one attempt as an invalid
\* answer does, and after the last attempt the fallback commits an action
C4_FailureIsAnAbsentResponse ==
    /\ [](model_response.outcome \in Failures => ~Truthy(model_response) /\ pc # "error")
    /\ [][pc = "query" /\ queries' = queries + 1 /\ model_response'.outcome \in Failures
              => pc' = "query" /\ attempt' = attempt + 1 /\ order' = order]_vars
    /\ [][pc = "query" /\ pc' = "query" /\ queries' = queries + 1
              => attempt' = attempt + 1]_vars
    /\ [](retries_exhausted => order.by \in {"fallback", "random"} /\ order.kind \in Outcomes)
    /\ (pc = "query" ~> pc = "done")

\* the third attempt timed out and the fallback committed a move
C4_Witness ==
    /\ retries_exhausted
    /\ model_response.outcome = "timeout"
    /\ order.by = "fallback"
    /\ order.kind = "move"

\* choose_move found its candidate list empty
empty_candidates ==
    /\ pc = "done"
    /\ legal_actions = <<>>
    /\ ~battle.force_switch
    /\ ~battle.active_pokemon.must_recharge

\* C5 as stated: with an empty candidate list the decision-maker is not
\* queried and the fallback's damage-ranked pick is committed
C5_EmptyListCommitsBestMove ==
    empty_candidates => queries = 0 /\ model_response = NoResponse /\ commits_best_move

\* C5, amended: ... the pick is damage-ranked when a move is available, and
\* is what choose_random_move returns otherwise
C5_EmptyListCommitsFallback ==
    empty_candidates =>
        /\ queries = 0
        /\ model_response = NoResponse
        /\ battle.available_moves # <<>> => commits_best_move
        /\ battle.available_moves = <<>> => order \in choose_random_move(battle)

\* every move was filtered out and the fallback committed the best of them
C5_Witness ==
    /\ empty_candidates
    /\ battle.available_moves # <<>>
    /\ queries = 0
    /\ order.by = "fallback"

(***************************************************************************)
(* calculate_move_damages called twice on one snapshot, with the player's  *)
(* memory (last_move, just_switched) changing between the calls            *)
(***************************************************************************)
DamageAttackers ==
    { snorlax,
      [porygon2 EXCEPT !.ability = "analytic"],
      [gengar EXCEPT !.ability = "tintedlens"] }

DamageOpponents ==
    { Opposing(lapras, <<"waterabsorb", "shellarmor">>, <<>>),
      [golem EXCEPT !.ability = "solidrock"],
      [snorlax EXCEPT !.ability = "thickfat"],
      Opposing(gengar, <<"cursedbody">>, <<>>),
      [lapras EXCEPT !.ability = "dryskin"],
      Opposing(snorlax, <<"immunity", "thickfat", "gluttony">>, <<>>),
      Opposing(jynx, <<"oblivious", "forewarn", "dryskin">>, <<>>),
      Opposing(jynx, <<"dryskin">>, <<>>) }

DamageMovesets ==
    { <<surf, icebeam, recover>>,
      <<freezedry, flamethrower, thunderwave>>,
      <<tackle, shadowball>>,
      <<>> }

\* snapshots with the variable-power moves, with and without weather: an
\* attacker of 6.0 kg against a defender of unknown weight, of 6.0 kg and of
\* 1.2 kg (the float 1.2 / 6.0 is just below 0.2)
VariablePowerPool ==
    { [Battle([snorlax EXCEPT !.weight = Num(6)], [opp EXCEPT !.weight = w],
              <<return, heavyslam, weatherball>>, <<>>)
          EXCEPT !.weather = weather] :
        opp \in { Opposing(lapras, <<"waterabsorb", "shellarmor">>, <<>>),
                  Opposing(gengar, <<"cursedbody">>, <<>>) },
        w \in { Num(0), Num(6), <<6, 5>> },
        weather \in { None, "SUNNYDAY", "SANDSTORM" } }

\* snapshots with the ability and the item that raise the crit stage, against
\* a defender whose ability is None or the empty string
CritStagePool ==
    { Battle([snorlax EXCEPT !.ability = "superluck", !.item = i],
             [Opposing(lapras, <<"waterabsorb", "shellarmor">>, <<>>) EXCEPT !.ability = a],
             <<surf, tackle>>, <<>>) :
        i \in { None, "scopelens" }, a \in { None, "" } }

\* a Rock/Ice defender, a Steel move of 75% accuracy and two setup moves that
\* raise a stat Pokemon.boosts may not list
aurorus    == Pokemon("aurorus", <<"ROCK", "ICE">>, "refrigerate", 58)
irontail   == Move("irontail", 100, "STEEL", "PHYSICAL", <<3, 4>>, {"contact"})
doubleteam == [Move("doubleteam", 0, "NORMAL", "STATUS", Num(1), {})
                  EXCEPT !.boosts = [stat \in {"evasion"} |-> 1]]
coil       == [Move("coil", 0, "POISON", "STATUS", Num(1), {})
                  EXCEPT !.boosts = [stat \in {"atk", "def", "accuracy"} |-> 1]]

\* snapshots whose expected damage depends on the rounding of the float
\* products: at crit stage 2 irontail on a Rock/Ice defender below half is
\* 3.75 without snow and 0.0075 * (100 * 4 * (1 / 1.5)) * 1.25 =
\* 2.4999999999999996 under snow, just below the lethal threshold; the power
\* of tackle with fairyaura is 40 * 1.5 * 1.33 = 79.80000000000001
RoundingPool ==
    { [Battle([gengar EXCEPT !.ability = "superluck", !.item = "scopelens"],
              [Opposing(aurorus, <<"refrigerate">>, <<>>)
                  EXCEPT !.current_hp_fraction = <<2, 5>>],
              moves, bench) EXCEPT !.weather = weather, !.turn = MaxTurn] :
        moves \in { <<irontail>>, <<irontail, shadowball>> },
        weather \in { None, "SNOW" },
        bench \in TurnBenches }
    \cup { [Battle([snorlax EXCEPT !.ability = "fairyaura"],
                   Opposing(gengar, <<"cursedbody">>, <<>>), <<tackle, surf>>, bench)
               EXCEPT !.turn = MaxTurn] :
             bench \in TurnBenches }

DamagePool ==
    { [Battle(me, opp, moves, <<>>) EXCEPT !.turn = t] :
        me \in DamageAttackers, opp \in DamageOpponents,
        moves \in DamageMovesets, t \in 1..MaxTurn }
    \cup VariablePowerPool \cup CritStagePool \cup RoundingPool

\* a step of a specification that applies one function to its inputs
Pure(pc2, b, lm, js, a, r, m) ==
    /\ pc' = pc2
    /\ battle' = b
    /\ last_move' = lm
    /\ just_switched' = js
    /\ arg' = a
    /\ result' = r
    /\ memo' = m
    /\ UNCHANGED <<time_waited, is_post_switch_turn, legal_actions, damage_map,
                   attempt, queries, model_response, order>>

\* the first call; memo keeps its map
DamageFirst ==
    /\ pc = "fresh"
    /\ Pure("once", battle, last_move, just_switched, arg, result,
            calculate_move_damages(battle, last_move))

\* an action is committed between the calls: choose_move sets last_move to
\* the move's id or to None and just_switched to either value
MemoryChanges ==
    /\ pc = "once"
    /\ \E lm \in {None} \cup Range(legal_moves(battle)), js \in BOOLEAN :
          Pure("once", battle, lm, js, arg, result, memo)

\* the second call on the same snapshot
DamageSecond ==
    /\ pc = "once"
    /\ Pure("twice", battle, last_move, just_switched, arg,
            calculate_move_damages(battle, last_move), memo)

\* lines 970-986: select_best_damage_move goes on from the map of its call,
\* commits (self.last_move is the id of the best move, or unchanged when
\* choose_random_move is called) and the next snapshot arrives
DamageNext ==
    /\ pc = "twice"
    /\ \E b \in DamagePool, r \in best_move_order(battle, best_damage_move(result), last_move) :
          Pure("fresh", b, r.last_move, just_switched, arg, <<>>, <<>>)

InitDamage ==
    /\ battle \in DamagePool
    /\ last_move = None
    /\ just_switched = FALSE
    /\ pc = "fresh"
    /\ time_waited = 0
    /\ is_post_switch_turn = FALSE
    /\ legal_actions = <<>>
    /\ damage_map = <<>>
    /\ attempt = 0
    /\ queries = 0
    /\ model_response = NoResponse
    /\ order = NoOrder
    /\ arg = <<>>
    /\ result = <<>>
    /\ memo = <<>>

NextDamage ==
    \/ DamageFirst
    \/ MemoryChanges
    \/ DamageSecond
    \/ DamageNext

SpecDamage == InitDamage /\ [][NextDamage]_vars

\* C8: two calls of calculate_move_damages on one snapshot return the same
\* map, whatever last_move and just_switched are at each call and whatever
\* was committed in between
C8_SameSnapshotSameMap == pc = "twice" => result = memo

\* C9: the keys of the returned map are exactly the ids of available_moves,
\* one entry each, status moves and moves without effect included
C9_KeysAreAvailableMoves ==
    pc \in {"once", "twice"} =>
        /\ Range(DictKeys(memo)) = Range(legal_moves(battle))
        /\ Len(memo) = Cardinality(Range(legal_moves(battle)))

\* a map holding a status move and a move the defender is immune to
C9_Witness ==
    /\ pc = "once"
    /\ Len(memo) = 3
    /\ DictHas(memo, "recover")
    /\ DictHas(memo, "surf")
    /\ RIsZero(DictGet(memo, "surf").multiplier)
    /\ DictGet(memo, "recover").expected_damage = Zero

\* the products of two type-chart factors
TableMultipliers == { Num(0), <<1, 4>>, <<1, 2>>, Num(1), Num(2), Num(4) }

\* the entries the hard-coded effectiveness override does not concern
PlainMoves(b) == { i \in 1..Len(b.available_moves) : b.available_moves[i].id # "freezedry" }

\* C10 as stated: every entry but freezedry's records a multiplier among
\* 0, 0.25, 0.5, 1, 2, 4, the ability modifiers included
C10_MultiplierInTable ==
    pc = "once" =>
        \A i \in PlainMoves(battle) :
            DictGet(memo, battle.available_moves[i].id).multiplier \in TableMultipliers

\* the defender-ability modifier applied to move i of the snapshot
AppliedModifier(b, i) ==
    defender_ability_modifier(b, b.available_moves[i],
        damage_multiplier(b.opponent_active_pokemon, b.available_moves[i].type, b.gen))

\* C10, amended: every entry but freezedry's records a multiplier among
\* 0, 0.25, 0.5, 1, 2, 4 whenever the defender-ability modifier that was
\* applied is 0 or 1, tinted lens included
C10_MultiplierInTableUnlessScaled ==
    pc = "once" =>
        \A i \in PlainMoves(battle) :
            AppliedModifier(battle, i) \in {Num(0), Num(1)} =>
                DictGet(memo, battle.available_moves[i].id).multiplier \in TableMultipliers

\* tinted lens has doubled a quarter to a half, with no defender modifier
C10_Witness ==
    /\ pc = "once"
    /\ battle.active_pokemon.ability = "tintedlens"
    /\ \E i \in PlainMoves(battle) :
          /\ AppliedModifier(battle, i) = Num(1)
          /\ damage_multiplier(battle.opponent_active_pokemon,
                               battle.available_moves[i].type, battle.gen) = <<1, 4>>
          /\ DictGet(memo, battle.available_moves[i].id).multiplier = <<1, 2>>

(***************************************************************************)
(* filter_suboptimal_switches applied to a list of switch options          *)
(***************************************************************************)
\* the longest list of switch options
MaxSwitchList == 2

SwitchOpponents ==
    { Opposing(lapras, <<"waterabsorb", "shellarmor">>, <<>>),
      Opposing(gengar, <<"cursedbody">>, <<shadowball>>),
      Opposing(golem, <<"sturdy">>, <<earthquake, thunderwave>>),
      Opposing(gengar, <<"cursedbody">>, <<>>) }

SwitchBenches == { <<blissey, porygon2>>, <<golem, lapras>>, <<gengar>>, <<golem>> }

SwitchPool ==
    { Battle(snorlax, opp, <<tackle>>, bench) :
        opp \in SwitchOpponents, bench \in SwitchBenches }

\* the options a caller may pass: names with the prefix (choose_move), bare
\* names (handle_switch), and the name of a Pokemon that is not on the bench
SwitchOptions(b) ==
    { switch_name(b.available_switches[i]) : i \in 1..Len(b.available_switches) }
    \cup { species_name(b.available_switches[i]) : i \in 1..Len(b.available_switches) }
    \cup { "switch-snorlax" }

SwitchLists(b) ==
    UNION { [1..n -> SwitchOptions(b)] : n \in 0..MaxSwitchList }

FilterSwitches ==
    /\ pc = "given"
    /\ Pure("filtered", battle, last_move, just_switched, arg,
            filter_suboptimal_switches(battle, arg), memo)

InitSwitches ==
    /\ battle \in SwitchPool
    /\ last_move = None
    /\ just_switched = FALSE
    /\ pc = "given"
    /\ time_waited = 0
    /\ is_post_switch_turn = FALSE
    /\ legal_actions = <<>>
    /\ damage_map = <<>>
    /\ attempt = 0
    /\ queries = 0
    /\ model_response = NoResponse
    /\ order = NoOrder
    /\ arg \in { List(l) : l \in SwitchLists(battle) }
    /\ result = <<>>
    /\ memo = <<>>

NextSwitches == FilterSwitches

SpecSwitches == InitSwitches /\ [][NextSwitches]_vars

\* C7: filter_suboptimal_switches returns a non-empty list for a non-empty
\* input, and the input itself when every option was to be removed
C7_SwitchesNeverEmptied ==
    pc = "filtered" /\ arg # <<>> =>
        /\ result # <<>>
        /\ Len(switches_to_remove(battle, arg)) = Len(arg) => result = arg

\* every option of a non-empty list is weak to the opponent
C7_Witness ==
    /\ pc = "filtered"
    /\ Len(arg) = 2
    /\ switches_to_remove(battle, arg) = arg
    /\ result = arg

(***************************************************************************)
(* filter_suboptimal_moves applied to the legal moves and the damage map   *)
(* of a snapshot, as choose_move calls it                                  *)
(***************************************************************************)
FilterActives == { snorlax, golem, gengar }

FilterOpponents ==
    { Opposing(lapras, <<"waterabsorb", "shellarmor">>, <<>>),
      [Opposing(lapras, <<"waterabsorb", "shellarmor">>, <<>>)
          EXCEPT !.current_hp_fraction = <<2, 5>>],
      [Opposing(gengar, <<"cursedbody">>, <<shadowball>>)
          EXCEPT !.current_hp_fraction = <<2, 5>>],
      [Opposing(blissey, <<"naturalcure">>, <<>>)
          EXCEPT !.current_hp_fraction = <<2, 5>>] }

FilterMovesets ==
    { <<explosion, tackle>>,
      <<hyperbeam, stoneedge>>,
      <<tackle, earthquake, recover>>,
      <<shadowball, thunderbolt>>,
      <<shadowball, tackle, thunderbolt>>,
      <<tackle>> }

FilterPool ==
    { [Battle(me, opp, moves, bench) EXCEPT !.turn = MaxTurn] :
        me \in FilterActives, opp \in FilterOpponents,
        moves \in FilterMovesets, bench \in TurnBenches }

\* hazard-setting moves
spikes      == Move("spikes", 0, "GROUND", "STATUS", Num(1), {})
toxicspikes == Move("toxicspikes", 0, "POISON", "STATUS", Num(1), {})
stealthrock == Move("stealthrock", 0, "ROCK", "STATUS", Num(1), {})
stickyweb   == Move("stickyweb", 0, "BUG", "STATUS", Num(1), {})

\* HP fractions around the high threshold of Rule 1
HealthLevels == { Num(1), <<33, 50>>, <<13, 20>>, <<2, 5>> }

\* snapshots for Rule 1: a healing move at several HP fractions, with and
\* without an override firing
HealingPool ==
    { [Battle([me EXCEPT !.current_hp_fraction = hp], opp, moves, bench) EXCEPT !.turn = MaxTurn] :
        me \in { snorlax, gengar }, hp \in HealthLevels,
        opp \in { Opposing(lapras, <<"waterabsorb", "shellarmor">>, <<>>),
                  [Opposing(gengar, <<"cursedbody">>, <<shadowball>>)
                      EXCEPT !.current_hp_fraction = <<2, 5>>] },
        moves \in { <<tackle, recover>>, <<recover, shadowball, explosion>> },
        bench \in TurnBenches }

\* the hazards the opponent's side may carry
HazardSides ==
    { [k \in {"SPIKES"} |-> 3], [k \in {"SPIKES"} |-> 2],
      [k \in {"TOXIC_SPIKES"} |-> 2], [k \in {"TOXIC_SPIKES"} |-> 1],
      [k \in {"STEALTH_ROCK"} |-> 1], [k \in {"STICKY_WEB"} |-> 1],
      [k \in {"SPIKES", "STEALTH_ROCK"} |-> IF k = "SPIKES" THEN 3 ELSE 1] }

\* snapshots for Rule 2: hazard-setting moves against a side with hazards
HazardPool ==
    { [Battle(me, opp, moves, <<blissey>>)
          EXCEPT !.turn = MaxTurn, !.opponent_side_conditions = sc] :
        me \in { snorlax, gengar },
        opp \in { Opposing(lapras, <<"waterabsorb", "shellarmor">>, <<>>),
                  [Opposing(gengar, <<"cursedbody">>, <<shadowball>>)
                      EXCEPT !.current_hp_fraction = <<2, 5>>] },
        moves \in { <<spikes, toxicspikes, tackle>>, <<stealthrock, stickyweb, shadowball>> },
        sc \in HazardSides }

\* snapshots for Rule 5: a single available move, benches with and without a
\* viable switch, opponents with and without revealed moves
LockedPool ==
    { [Battle(me, opp, <<move>>, bench) EXCEPT !.turn = MaxTurn] :
        me \in { snorlax, golem },
        opp \in { Opposing(golem, <<"sturdy">>, <<>>),
                  Opposing(golem, <<"sturdy">>, <<earthquake>>),
                  Opposing(gengar, <<"cursedbody">>, <<shadowball>>),
                  Opposing(lapras, <<"waterabsorb", "shellarmor">>, <<surf, recover>>) },
        move \in { tackle, thunderbolt, earthquake },
        bench \in { <<>>, <<blissey, porygon2>>, <<golem, lapras>>, <<gengar, golem>> } }

\* snapshots for Rules 10 and 21: asleep or awake, with and without
\* sleeptalk, the opponent behind a substitute or not
SleepPool ==
    { [Battle([me EXCEPT !.status = st[1], !.status_counter = st[2]],
              [opp EXCEPT !.effects = eff], moves, bench) EXCEPT !.turn = MaxTurn] :
        me \in { snorlax, gengar },
        st \in { <<"SLP", 0>>, <<"SLP", 1>>, <<"SLP", 2>>, <<None, 0>> },
        opp \in { Opposing(lapras, <<"waterabsorb", "shellarmor">>, <<>>),
                  Opposing(gengar, <<"cursedbody">>, <<shadowball>>) },
        eff \in { {}, {"SUBSTITUTE"} },
        moves \in { <<sleeptalk, tackle>>, <<tackle, recover>>, <<shadowball, sleeptalk, recover>> },
        bench \in TurnBenches }

\* snapshots for Override 1 meeting Rule 10: a slower active Pokemon under a
\* one-shot-class threat (revealed or by the opponent's types), asleep or awake
PerilPool ==
    { [Battle([golem EXCEPT !.status = st[1], !.status_counter = st[2]],
              opp, moves, bench) EXCEPT !.turn = MaxTurn] :
        st \in { <<"SLP", 0>>, <<None, 0>> },
        opp \in { Opposing(lapras, <<"waterabsorb", "shellarmor">>, <<>>),
                  Opposing(lapras, <<"waterabsorb", "shellarmor">>, <<surf, recover>>) },
        moves \in { <<sleeptalk, earthquake>>, <<earthquake, recover>> },
        bench \in TurnBenches }

\* snapshots for Override 2 meeting Rule 10: a faster active Pokemon with a
\* lethal move against a weakened opponent, asleep or awake
ThroatPool ==
    { [Battle([gengar EXCEPT !.status = st[1], !.status_counter = st[2]],
              [Opposing(blissey, <<"naturalcure">>, <<>>) EXCEPT !.current_hp_fraction = hp],
              moves, bench) EXCEPT !.turn = MaxTurn] :
        st \in { <<"SLP", 0>>, <<None, 0>> },
        hp \in { <<2, 5>>, <<1, 2>> },
        moves \in { <<sleeptalk, explosion>>, <<explosion, shadowball>> },
        bench \in TurnBenches }

\* snapshots for Rules 15 and 25: a move with a recharge turn, the Attack
\* stage lowered or not
WeakenedPool ==
    { [Battle([snorlax EXCEPT !.boosts = [NoBoosts EXCEPT !["atk"] = atk]],
              opp, moves, bench) EXCEPT !.turn = MaxTurn] :
        atk \in { 0, -2 },
        opp \in { Opposing(lapras, <<"waterabsorb", "shellarmor">>, <<>>),
                  Opposing(golem, <<"sturdy">>, <<>>) },
        moves \in { <<hyperbeam, stoneedge>>, <<tackle, hyperbeam, recover>> },
        bench \in TurnBenches }

\* moves that are worth using once per cycle
wish      == Move("wish", 0, "NORMAL", "STATUS", Num(1), {})
yawn      == Move("yawn", 0, "NORMAL", "STATUS", Num(1), {})
trickroom == Move("trickroom", 0, "PSYCHIC", "STATUS", Num(1), {})

\* snapshots for Rules 12, 29 and 36: a once-per-cycle move that may have been
\* the last move, the Attack stage lowered or not
RepeatPool ==
    { [Battle([snorlax EXCEPT !.boosts = [NoBoosts EXCEPT !["atk"] = atk],
                              !.current_hp_fraction = <<2, 5>>],
              Opposing(lapras, <<"waterabsorb", "shellarmor">>, <<>>), moves, bench)
          EXCEPT !.turn = MaxTurn] :
        atk \in { 0, -2 },
        moves \in { <<wish, tackle>>, <<yawn, tackle>>, <<trickroom, earthquake>> },
        bench \in TurnBenches }

\* healing moves whose amount depends on the weather
synthesis  == Move("synthesis", 0, "GRASS", "STATUS", Num(1), {})
moonlight  == Move("moonlight", 0, "FAIRY", "STATUS", Num(1), {})
morningsun == Move("morningsun", 0, "NORMAL", "STATUS", Num(1), {})

\* the weathers lines 741 lists as reducing their healing
healing_reducing_weather ==
    { "RAINDANCE", "PRIMORDIALSEA", "DELTASTREAM", "HAIL", "SANDSTORM", "SNOW", "SNOWSCAPE" }

\* snapshots for Rule 18: a weather-dependent healing move at a high and at a
\* low HP fraction, in every weather
WeatherPool ==
    { [Battle([snorlax EXCEPT !.current_hp_fraction = hp],
              Opposing(lapras, <<"waterabsorb", "shellarmor">>, <<>>),
              <<tackle, heal, earthquake>>, <<blissey, porygon2>>)
          EXCEPT !.turn = MaxTurn, !.weather = weather] :
        hp \in { Num(1), <<2, 5>> },
        heal \in { synthesis, moonlight, morningsun },
        weather \in healing_reducing_weather \cup { None, "SUNNYDAY" } }

\* snapshots for Rule 26: encored into a setup move, with the stages it
\* raises at 0, at 6, or absent from Pokemon.boosts
EncorePool ==
    { [Battle([porygon2 EXCEPT !.effects = {"ENCORE"}, !.boosts = boosts],
              Opposing(snorlax, <<"immunity", "thickfat", "gluttony">>, <<>>),
              <<move>>, bench) EXCEPT !.turn = MaxTurn] :
        boosts \in { NoBoosts, [NoBoosts EXCEPT !["atk"] = 6, !["def"] = 6],
                     [stat \in {"atk"} |-> 6] },
        move \in { swordsdance, doubleteam, coil },
        bench \in { <<>>, <<blissey>> } }

\* Rule 27's other special wall, its species in lower case and capitalised,
\* against special attacks only and against a physical attack
chansey == Pokemon("chansey", <<"NORMAL", None>>, "naturalcure", 50)

WallPool ==
    { [Battle(porygon2, Opposing([chansey EXCEPT !.species = species], <<"naturalcure">>, <<>>),
              moves, bench) EXCEPT !.turn = MaxTurn] :
        species \in { "chansey", "Chansey" },
        moves \in { <<icebeam, thunderbolt>>, <<tackle, icebeam>> },
        bench \in { <<>>, <<golem>> } }

RulePool ==
    HealingPool \cup HazardPool \cup LockedPool \cup SleepPool \cup PerilPool \cup ThroatPool
    \cup WeakenedPool \cup RepeatPool \cup WeatherPool \cup EncorePool \cup RoundingPool
    \cup WallPool

FilterMoves ==
    /\ pc = "given"
    /\ Pure("filtered", battle, last_move, just_switched, arg,
            filter_suboptimal_moves(battle, arg, damage_map, last_move), memo)

InitFilter ==
    /\ battle \in FilterPool \cup RulePool
    /\ last_move \in {None} \cup Range(legal_moves(battle))
    /\ just_switched = FALSE
    /\ pc = "given"
    /\ time_waited = 0
    /\ is_post_switch_turn = FALSE
    /\ legal_actions = <<>>
    /\ damage_map = calculate_move_damages(battle, last_move)
    /\ attempt = 0
    /\ queries = 0
    /\ model_response = NoResponse
    /\ order = NoOrder
    /\ arg = legal_moves(battle)
    /\ result = <<>>
    /\ memo = <<>>

NextFilter == FilterMoves

SpecFilter == InitFilter /\ [][NextFilter]_vars

\* Override 2 fires: the opponent is below half, the active side moves first
\* and a move crosses the lethal threshold
step_on_throat_fires(b, damage_info) ==
    /\ RLt(b.opponent_active_pokemon.current_hp_fraction, <<1, 2>>)
    /\ determine_who_moves_first(b)
    /\ ko_moves(damage_info, <<5, 2>>) # <<>>

\* no rule before Rule 24 returns
no_early_return(b, la) ==
    ~Rule5Fires(b) /\ ~Rule10Returns(b, la) /\ ~Rule15Fires(b) /\ ~Rule24Fires(b)

\* Override 4 fires: Rule 26 or Rule 27 forces the viable switches
forced_continuation_fires(b, damage_info, viable_switches) ==
    \/ Rule26EncoreForces(b, damage_info) /\ viable_switches # <<>>
    \/ Rule26TauntForces(b, damage_info, viable_switches)
    \/ Rule27Forces(b, viable_switches)

\* C6: once an override of filter_suboptimal_moves fires (mortal peril, step
\* on throat, locked into a poor move, forced continuation), no later rule
\* runs: the pipeline returns exactly the set the override produced
C6_OverridesAreTerminal ==
    pc = "filtered" =>
        /\ has_ko_threat(battle) =>
              result = mortal_peril_alert(battle, arg, damage_map)
        /\ ~has_ko_threat(battle) /\ step_on_throat_fires(battle, damage_map) =>
              result = ko_moves(damage_map, <<5, 2>>)
        /\ /\ ~has_ko_threat(battle)
           /\ ~step_on_throat_fires(battle, damage_map)
           /\ Rule5Fires(battle)
           => result = Rule5Result(
                          RemoveEach(arg, Concat(<<Rule1(battle), Rule2(battle),
                                                   Rule3(battle), Rule4(battle)>>)),
                          filter_suboptimal_switches(battle, all_possible_switches(battle)))
        /\ /\ ~has_ko_threat(battle)
           /\ ~step_on_throat_fires(battle, damage_map)
           /\ no_early_return(battle, arg)
           /\ forced_continuation_fires(battle, damage_map,
                  filter_suboptimal_switches(battle, all_possible_switches(battle)))
           => result = filter_suboptimal_switches(battle, all_possible_switches(battle))

(***************************************************************************)
(* The Fallback Selector on its own: select_best_damage_move and           *)
(* choose_random_switch applied to a snapshot                              *)
(***************************************************************************)
FallbackActives == { snorlax, gengar }

FallbackOpponents ==
    { Opposing(snorlax, <<"thickfat", "immunity">>, <<>>),
      Opposing(gengar, <<"cursedbody">>, <<shadowball>>) }

\* movesets with a single best move, with moves tied for the greatest
\* damage, with status moves only, with no effect at all, and none
FallbackMovesets ==
    { <<tackle, earthquake, recover>>,
      <<icebeam, surf, thunderbolt>>,
      <<recover, thunderwave>>,
      <<recover, surf, thunderbolt>>,
      <<tackle, recover>>,
      <<>> }

FallbackBenches == { <<>>, <<blissey, porygon2>> }

FallbackPool ==
    { Battle(me, opp, moves, bench) :
        me \in FallbackActives, opp \in FallbackOpponents,
        moves \in FallbackMovesets, bench \in FallbackBenches }

\* a call of one of the two selectors: its order is committed and
\* self.last_move is what the call left
Selected(pc2, r) ==
    /\ pc' = pc2
    /\ order' = r.order
    /\ last_move' = r.last_move
    /\ damage_map' = calculate_move_damages(battle, last_move)
    /\ UNCHANGED <<battle, just_switched, time_waited, is_post_switch_turn,
                   legal_actions, attempt, queries, model_response, arg, result, memo>>

SelectBest ==
    /\ pc = "given"
    /\ \E r \in select_best_damage_move(battle, last_move) : Selected("selected", r)

RandomSwitch ==
    /\ pc = "given"
    /\ \E r \in choose_random_switch(battle, last_move) : Selected("switched", r)

InitFallback ==
    /\ battle \in FallbackPool
    /\ last_move \in {None} \cup Range(legal_moves(battle))
    /\ just_switched = FALSE
    /\ pc = "given"
    /\ time_waited = 0
    /\ is_post_switch_turn = FALSE
    /\ legal_actions = <<>>
    /\ damage_map = <<>>
    /\ attempt = 0
    /\ queries = 0
    /\ model_response = NoResponse
    /\ order = NoOrder
    /\ arg = <<>>
    /\ result = <<>>
    /\ memo = <<>>

NextFallback ==
    \/ SelectBest
    \/ RandomSwitch

SpecFallback == InitFallback /\ [][NextFallback]_vars

\* the expected damage the damage map records for move i of the snapshot
move_damage(i) == DictGet(damage_map, battle.available_moves[i].id).expected_damage

\* move i has the greatest expected damage and is the first that has it
first_of_greatest(i) ==
    /\ \A j \in 1..Len(battle.available_moves) : FLe(move_damage(j), move_damage(i))
    /\ \A j \in 1..(i-1) : FLess(move_damage(j), move_damage(i))

\* C11: with at least one move available, select_best_damage_move commits
\* the move of the greatest expected damage, and among the moves tied for it
\* the one that comes first in available_moves
C11_GreatestDamageFirstSeen ==
    pc = "selected" /\ battle.available_moves # <<>> =>
        /\ order.kind = "move"
        /\ \E i \in 1..Len(battle.available_moves) :
              /\ order.id = battle.available_moves[i].id
              /\ first_of_greatest(i)
        /\ last_move = order.id

\* two damaging moves are tied for the greatest damage and the first is committed
C11_Witness ==
    /\ pc = "selected"
    /\ \E i, j \in 1..Len(battle.available_moves) :
          /\ i < j
          /\ first_of_greatest(i)
          /\ move_damage(j) = move_damage(i)
          /\ move_damage(i) # Zero
          /\ order.id = battle.available_moves[i].id

\* no available move has an expected damage above zero
no_damaging_move ==
    \A i \in 1..Len(battle.available_moves) : move_damage(i) = Zero

\* C12: when no available move has an expected damage above zero and a legal
\* switch exists, select_best_damage_move commits a legal switch and never a
\* status move
C12_NoDamageCommitsSwitch ==
    pc = "selected" /\ no_damaging_move /\ battle.available_switches # <<>> =>
        /\ order.kind = "switch"
        /\ \E i \in 1..Len(battle.available_switches) :
              order.id = battle.available_switches[i].species

\* C13 as stated: with no damaging move and no switch, whether or not status
\* moves are available, the pass signal is committed and no error is raised
C13_NoDamageNoSwitchPasses ==
    pc = "selected" /\ no_damaging_move /\ battle.available_switches = <<>> =>
        order.kind = "pass"

\* C13: with no damaging move and no switch, select_best_damage_move raises
\* no error; it commits the pass signal when no move at all is available and
\* the first available move otherwise
C13_NoMoveNoSwitchPasses ==
    pc = "selected" /\ no_damaging_move /\ battle.available_switches = <<>> =>
        /\ order.kind # "error"
        /\ battle.available_moves = <<>> => order = Order("pass", "default", "random")
        /\ battle.available_moves # <<>> =>
              order = Order("move", battle.available_moves[1].id, "fallback")

\* nothing is available and the pass signal is committed
C13_Witness ==
    /\ pc = "selected"
    /\ battle.available_moves = <<>>
    /\ battle.available_switches = <<>>
    /\ order.kind = "pass"

\* C14: with the active Pokemon's HP fraction at or above 0.66, no move of
\* the healing-move list is in the set filter_suboptimal_moves returns,
\* whichever other rules or overrides fire
C14_NoHealingAtHighHP ==
    pc = "filtered" /\ RGe(battle.active_pokemon.current_hp_fraction, <<66, 100>>) =>
        \A i \in 1..Len(healing_moves) : ~In(healing_moves[i], result)

\* at exactly 0.66 recover is among the legal moves and is filtered out,
\* while another move stays
C14_Witness ==
    /\ pc = "filtered"
    /\ battle.active_pokemon.current_hp_fraction = <<33, 50>>
    /\ In("recover", arg)
    /\ ~In("recover", result)
    /\ result # <<>>

\* C15: a hazard-setting move is absent from the set filter_suboptimal_moves
\* returns when the opponent's side carries that hazard at its cap (3 spikes,
\* 2 toxic spikes) or carries it at all (stealth rock, sticky web)
C15_NoSaturatedHazard ==
    pc = "filtered" =>
        LET opp_sc == battle.opponent_side_conditions
        IN  /\ SideGet(opp_sc, "SPIKES") >= 3 => ~In("spikes", result)
            /\ SideGet(opp_sc, "TOXIC_SPIKES") >= 2 => ~In("toxicspikes", result)
            /\ "STEALTH_ROCK" \in DOMAIN opp_sc => ~In("stealthrock", result)
            /\ "STICKY_WEB" \in DOMAIN opp_sc => ~In("stickyweb", result)

\* three spikes lie on the opponent's side: spikes is filtered out and
\* toxicspikes, whose hazard is absent, stays
C15_Witness ==
    /\ pc = "filtered"
    /\ SideGet(battle.opponent_side_conditions, "SPIKES") = 3
    /\ In("spikes", arg)
    /\ ~In("spikes", result)
    /\ In("toxicspikes", result)

\* switch option i is not weak to any move the opponent has revealed
not_weak_to_revealed(b, i) ==
    \A j \in 1..Len(b.opponent_active_pokemon.moves) :
        RLe(damage_multiplier(b.available_switches[i],
                              b.opponent_active_pokemon.moves[j].type, b.gen), Num(1))

\* C16: with exactly one available move whose type effectiveness against
\* the opponent is below 1 and a legal switch that is not weak to the
\* opponent's revealed moves, filter_suboptimal_moves returns the result of
\* filter_suboptimal_switches over all legal switches, without the locked move
C16_LockedMoveForcesViableSwitches ==
    /\ pc = "filtered"
    /\ Len(battle.available_moves) = 1
    /\ RLt(damage_multiplier(battle.opponent_active_pokemon,
                             battle.available_moves[1].type, battle.gen), Num(1))
    /\ \E i \in 1..Len(battle.available_switches) : not_weak_to_revealed(battle, i)
    => /\ result = filter_suboptimal_switches(battle, all_possible_switches(battle))
       /\ result # <<>>
       /\ ~In(battle.available_moves[1].id, result)

\* locked into a resisted tackle against an opponent that has revealed
\* earthquake: of the bench, golem is weak to it and lapras is returned
C16_Witness ==
    /\ pc = "filtered"
    /\ arg = <<"tackle">>
    /\ Len(battle.opponent_active_pokemon.moves) = 1
    /\ Len(battle.available_switches) = 2
    /\ ~not_weak_to_revealed(battle, 1)
    /\ not_weak_to_revealed(battle, 2)
    /\ result = <<"switch-lapras">>

\* C17: asleep with at most one sleep turn left and sleeptalk among the legal
\* moves, filter_suboptimal_moves returns sleeptalk followed by legal
\* switches and no other move, whatever the opponent's state and whatever
\* the other rules do
C17_AsleepKeepsSleeptalk ==
    /\ pc = "filtered"
    /\ battle.active_pokemon.status = "SLP"
    /\ battle.active_pokemon.status_counter <= 1
    /\ In("sleeptalk", arg)
    => /\ result # <<>>
       /\ result[1] = "sleeptalk"
       /\ \A i \in 2..Len(result) : In(result[i], all_possible_switches(battle))

\* a rule of the pipeline returns a forced set in place of the candidates
forced_rule_returns(b, la, damage_info) ==
    \/ Rule5Fires(b)
    \/ Rule10Returns(b, la)
    \/ Rule15Fires(b)
    \/ Rule24Fires(b)
    \/ forced_continuation_fires(b, damage_info,
           filter_suboptimal_switches(b, all_possible_switches(b)))

\* C18: when the snapshot has a legal switch, the forced set of a rule
\* (mortal peril, locked move, forced sleep handling, low attacking stat,
\* truant, forced continuation, special wall) is not empty
C18_ForcedSetNotEmpty ==
    pc = "filtered" /\ battle.available_switches # <<>> =>
        /\ has_ko_threat(battle) => mortal_peril_alert(battle, arg, damage_map) # <<>>
        /\ forced_rule_returns(battle, arg, damage_map) => result # <<>>

\* C19: the rules that are not overrides only remove entries and commute;
\* in particular Rule 10, where it does not return, and Rule 21 remove only
\* and give the same set in either order
C19_RulesOnlyRemoveAndCommute ==
    pc = "filtered" /\ ~Rule10Returns(battle, arg) =>
        /\ Range(Rule10(battle, arg, arg)) \subseteq Range(arg)
        /\ Range(Rule21(battle, arg)) \subseteq Range(arg)
        /\ Range(Rule21(battle, Rule10(battle, arg, arg)))
              = Range(Rule10(battle, Rule21(battle, arg), arg))
        /\ /\ ~has_ko_threat(battle)
           /\ ~step_on_throat_fires(battle, damage_map)
           /\ ~Rule5Fires(battle)
           /\ ~forced_continuation_fires(battle, damage_map,
                   filter_suboptimal_switches(battle, all_possible_switches(battle)))
           => Range(result) \subseteq Range(arg)

\* C20: last_move reflects the action the turn committed: the id of a
\* committed move, and None after a committed switch, whoever chose it
C20_LastMoveIsTheCommittedAction ==
    pc = "done" =>
        /\ order.kind = "move" => last_move = order.id
        /\ order.kind = "switch" => last_move = None

(***************************************************************************)
(* Two battles played by one LocalLLMPlayer.  The player object holds one  *)
(* last_move and one just_switched (lines 18-24); every battle's           *)
(* choose_move runs as a coroutine of the same event loop, so one runs     *)
(* until it sleeps or returns and then the other may run.  The variables   *)
(* hold the running coroutine; memo holds the other one and arg counts how *)
(* often control has passed between them.                                  *)
(***************************************************************************)
\* a battle whose choose_move is not running: its snapshot, where its
\* choose_move stands, the locals alive there, and last_move and
\* just_switched as the battle's own last decision left them
Suspended(b, p, tw, post, lm, js) ==
    [battle |-> b, pc |-> p, time_waited |-> tw, is_post_switch_turn |-> post,
     last_move |-> lm, just_switched |-> js]

BattlesPool ==
    { [Battle(snorlax, Opposing(lapras, <<"waterabsorb", "shellarmor">>, <<>>), moves, bench)
          EXCEPT !.turn = MaxTurn] :
        moves \in { <<>>, <<tackle, earthquake, recover>> },
        bench \in { <<blissey, porygon2>> } }
    \cup { [Battle([snorlax EXCEPT !.fainted = TRUE, !.current_hp_fraction = Num(0)],
                   Opposing(lapras, <<"waterabsorb", "shellarmor">>, <<>>), <<>>,
                   <<blissey, porygon2>>)
              EXCEPT !.force_switch = TRUE, !.turn = MaxTurn] }

\* a battle that is about to start: choose_move has not been called for it
NewBattles ==
    { Suspended(b, "idle", 0, FALSE, None, FALSE) :
        b \in { n \in BattlesPool : n.available_moves # <<>> } }

\* how often the event loop passes control from one battle to the other
MaxBattleSwitches == 2

\* the latest sleep of a wait loop during which the other battle is run
MaxSleepSwitch == 1

\* the running choose_move is inside asyncio.sleep (lines 1148, 1005) or has
\* returned its order
gives_up_control ==
    \/ pc = "done"
    \/ pc \in {"force_wait", "moves_wait"} /\ time_waited \in 1..MaxSleepSwitch

\* what becomes of the running battle when the other one takes over: it waits
\* where it is; once its turn is over it may also have ended, and the
\* player's next battle (a new Battle object, the same player) takes its place
Leaving ==
    { Suspended(battle, pc, time_waited, is_post_switch_turn, last_move, just_switched) }
    \cup IF pc = "done"
         THEN NewBattles
         ELSE {}

\* the event loop runs the other battle's choose_move: it goes on after its
\* sleep, or is called with the battle's next request
SwitchBattle ==
    /\ gives_up_control
    /\ arg < MaxBattleSwitches
    /\ arg' = arg + 1
    /\ memo' \in Leaving
    /\ IF memo.pc = "done"
       THEN /\ battle' \in BattlesPool
            /\ pc' = "idle"
            /\ time_waited' = 0
            /\ is_post_switch_turn' = FALSE
       ELSE /\ battle' = memo.battle
            /\ pc' = memo.pc
            /\ time_waited' = memo.time_waited
            /\ is_post_switch_turn' = memo.is_post_switch_turn
    /\ legal_actions' = <<>>
    /\ damage_map' = <<>>
    /\ attempt' = 0
    /\ queries' = 0
    /\ model_response' = NoResponse
    /\ order' = NoOrder
    /\ UNCHANGED <<last_move, just_switched, result>>

InitBattles ==
    /\ battle \in BattlesPool
    /\ memo \in NewBattles
    /\ last_move = None
    /\ just_switched = FALSE
    /\ pc = "idle"
    /\ time_waited = 0
    /\ is_post_switch_turn = FALSE
    /\ legal_actions = <<>>
    /\ damage_map = <<>>
    /\ attempt = 0
    /\ queries = 0
    /\ model_response = NoResponse
    /\ order = NoOrder
    /\ arg = 0
    /\ result = <<>>

NextBattles ==
    \/ ChooseMoveStart
    \/ ForceSwitchSleep
    \/ ForceSwitchWaitOver
    \/ WaitForMovesSleep
    \/ BuildCandidates
    \/ QueryDecisionMaker
    \/ RetriesExhausted
    \/ HandleSwitchQuery
    \/ SwitchBattle

SpecBattles == InitBattles /\ [][NextBattles]_vars

\* C21: battles of one engine are independent: when a battle's turn
\* computation goes on or starts, the lastActionTaken and justSwitchedFlag it
\* is about to read are the ones its own last decision left (None and FALSE
\* in a battle that has not decided yet), whatever the other battle did
\* meanwhile
C21_BattlesAreIndependent ==
    [][memo' # memo => /\ last_move = memo.last_move
                       /\ just_switched = memo.just_switched]_vars

\* C22: nothing of EngineMemory is modified before the final action is
\* committed: every step of choose_move after which the turn is still going
\* on (no order returned yet) leaves last_move and just_switched as they were,
\* so a turn abandoned there leaves them at their values of the turn's start
C22_NoMemoryChangeBeforeCommit ==
    [][pc' \notin {"done", "error"} => /\ last_move' = last_move
                                        /\ just_switched' = just_switched]_vars

\* C23: the candidate list handed to the decision-maker names no action more
\* than once
C23_CandidatesAreUnique ==
    pc = "query" =>
        \A i, j \in 1..Len(legal_actions) : legal_actions[i] = legal_actions[j] => i = j

\* C24: under a one-shot-class threat with the active side not moving first,
\* filter_suboptimal_moves returns the Viable Switch Filter's result and no
\* move
C24_PerilLeavesViableSwitchesOnly ==
    pc = "filtered" /\ has_ko_threat(battle) /\ ~determine_who_moves_first(battle) =>
        /\ result = filter_suboptimal_switches(battle, all_possible_switches(battle))
        /\ \A i \in 1..Len(result) : StartsWithSwitch(result[i])

\* the action's expected damage in the damage map reaches the lethal threshold
reaches_lethal_threshold(a) ==
    DictHas(damage_map, a) /\ FGe(DictGet(damage_map, a).expected_damage, Float(Lit(<<5, 2>>)))

\* C25: with the opponent below 50% HP, the active side moving first and a
\* move whose expected damage reaches the lethal threshold (2.5), every entry
\* of the set filter_suboptimal_moves returns reaches that threshold
C25_ThroatLeavesLethalMovesOnly ==
    pc = "filtered" /\ step_on_throat_fires(battle, damage_map) =>
        \A i \in 1..Len(result) : reaches_lethal_threshold(result[i])

\* C26: with exactly one available move that is not very effective against
\* the opponent and no legal switch, the locked move stands: it is in the set
\* filter_suboptimal_moves returns
C26_LockedMoveStandsWithoutSwitch ==
    pc = "filtered" /\ Rule5Fires(battle) /\ battle.available_switches = <<>> =>
        In(battle.available_moves[1].id, result)

\* C27: the set filter_suboptimal_moves returns contains no move with a
\* mandatory recovery turn, whichever rule fires or returns early
C27_NoRechargeMove ==
    pc = "filtered" => \A i \in 1..Len(recharge_moves) : ~In(recharge_moves[i], result)

\* moves that have a value only once per cycle (Rules 12, 29 and 36)
once_per_cycle_moves == {"wish", "yawn", "trickroom"}

\* C28: a once-per-cycle move that was used on the preceding turn
\* (lastActionTaken is that move) is absent from the set
\* filter_suboptimal_moves returns, whichever rule fires or returns early
C28_NoRepeatOfOncePerCycleMove ==
    pc = "filtered" /\ last_move \in once_per_cycle_moves => ~In(last_move, result)

\* the active Pokemon loafs: its ability is truant and must_recharge is set
truant_is_loafing(b) == b.active_pokemon.ability = "truant" /\ b.active_pokemon.must_recharge

\* C29: when the active Pokemon is loafing under truant and a legal switch
\* exists, the turn's candidate set consists of switches only and a switch is
\* committed, not a pass
C29_TruantForcesSwitch ==
    pc = "done" /\ truant_is_loafing(battle) /\ battle.available_switches # <<>> =>
        /\ order.kind = "switch"
        /\ legal_actions # <<>>
        /\ \A i \in 1..Len(legal_actions) : StartsWithSwitch(legal_actions[i])

\* a is the id of an available non-status move whose expected damage in the
\* damage map is 0.5 or less
low_damage_attack(a) ==
    /\ \E j \in 1..Len(battle.available_moves) :
          battle.available_moves[j].id = a /\ battle.available_moves[j].category # "STATUS"
    /\ DictHas(damage_map, a)
    /\ FLe(DictGet(damage_map, a).expected_damage, Float(Lit(<<1, 2>>)))

\* C30: unless exactly one move is available, the set filter_suboptimal_moves
\* returns contains no non-status move whose expected damage is 0.5 or less
\* (a zero effectiveness multiplier included)
C30_NoLowDamageAttack ==
    pc = "filtered" /\ Len(battle.available_moves) # 1 =>
        \A i \in 1..Len(result) : ~low_damage_attack(result[i])

\* an immune attack and a weak one are removed and a stronger move stays
C30_Witness ==
    /\ pc = "filtered"
    /\ Len(battle.available_moves) > 1
    /\ \E i, j \in 1..Len(arg) :
          /\ low_damage_attack(arg[i]) /\ low_damage_attack(arg[j])
          /\ RIsZero(DictGet(damage_map, arg[i]).multiplier)
          /\ DictGet(damage_map, arg[j]).expected_damage # Zero
          /\ ~In(arg[i], result) /\ ~In(arg[j], result)
    /\ result # <<>>

(***************************************************************************)
(* The Turn-Order Resolver on its own, and the two overrides that ask it   *)
(***************************************************************************)
\* the Speed stages of the snapshots: at -5 the factor is the float 2 / 7,
\* and 45 * (2 / 7) is 12.857142857142856
SpeedBoosts ==
    { [NoBoosts EXCEPT !["spe"] = boost] : boost \in { -5, -2, 0, 2 } }
    \cup { [stat \in {"atk"} |-> 1] }

\* snapshots with faster, slower and equally fast active Pokemon: equal base
\* speeds (golem against golem) and speeds made equal by a boost (snorlax at
\* +2 against lapras) or by paralysis (gengar against blissey); boosts may
\* have no entry for the Speed stage
SpeedPool ==
    { [Battle([me EXCEPT !.boosts = boosts, !.status = st],
              opp, <<tackle, earthquake, explosion>>, <<blissey, porygon2>>)
          EXCEPT !.turn = MaxTurn, !.fields = fields, !.side_conditions = sc] :
        me \in { snorlax, golem, gengar },
        boosts \in SpeedBoosts,
        st \in { None, "PAR" },
        opp \in { Opposing(lapras, <<"waterabsorb", "shellarmor">>, <<>>),
                  Opposing(golem, <<"sturdy">>, <<>>),
                  [Opposing(blissey, <<"naturalcure">>, <<>>)
                      EXCEPT !.current_hp_fraction = <<2, 5>>] },
        fields \in { {}, {"TRICK_ROOM"} },
        sc \in { <<>>, [k \in {"TAILWIND"} |-> 1] } }

\* am_i_faster = self.determine_who_moves_first(battle); memo keeps the two
\* effective speeds it compared
ResolveOrder ==
    /\ pc = "given"
    /\ Pure("resolved", battle, last_move, just_switched, arg,
            determine_who_moves_first(battle), get_effective_speed(battle))

\* trick room starts or ends and nothing else changes; arg keeps the answer
\* given before
ToggleTrickRoom ==
    /\ pc = "resolved"
    /\ Pure("given",
            [battle EXCEPT !.fields = IF "TRICK_ROOM" \in @ THEN @ \ {"TRICK_ROOM"}
                                      ELSE @ \cup {"TRICK_ROOM"}],
            last_move, just_switched, <<result>>, result, memo)

\* step_on_throat called on the legal moves
CallStepOnThroat ==
    /\ pc = "resolved"
    /\ Pure("throat", battle, last_move, just_switched, legal_moves(battle),
            step_on_throat(battle, legal_moves(battle), damage_map), memo)

\* mortal_peril_alert called on the legal moves
CallMortalPeril ==
    /\ pc = "resolved"
    /\ Pure("peril", battle, last_move, just_switched, legal_moves(battle),
            mortal_peril_alert(battle, legal_moves(battle), damage_map), memo)

InitSpeed ==
    /\ battle \in SpeedPool
    /\ last_move = None
    /\ just_switched = FALSE
    /\ pc = "given"
    /\ time_waited = 0
    /\ is_post_switch_turn = FALSE
    /\ legal_actions = <<>>
    /\ damage_map = calculate_move_damages(battle, last_move)
    /\ attempt = 0
    /\ queries = 0
    /\ model_response = NoResponse
    /\ order = NoOrder
    /\ arg = <<>>
    /\ result = None
    /\ memo = <<>>

NextSpeed ==
    \/ ResolveOrder
    \/ ToggleTrickRoom
    \/ CallStepOnThroat
    \/ CallMortalPeril

SpecSpeed == InitSpeed /\ [][NextSpeed]_vars

\* C31: for unequal effective speeds the active side is reported to move
\* first exactly when its speed is the lower one under trick room and the
\* higher one otherwise, and toggling trick room alone flips the answer
C31_TrickRoomInvertsOrder ==
    pc = "resolved" /\ (FLess(memo[1], memo[2]) \/ FGt(memo[1], memo[2])) =>
        /\ result = IF "TRICK_ROOM" \in battle.fields
                    THEN FLess(memo[1], memo[2]) ELSE FGt(memo[1], memo[2])
        /\ arg # <<>> => result = ~arg[1]

\* the slower active Pokemon moves first once trick room has been toggled on
C31_Witness ==
    /\ pc = "resolved"
    /\ "TRICK_ROOM" \in battle.fields
    /\ FLess(memo[1], memo[2])
    /\ arg = <<FALSE>>
    /\ result = TRUE

\* the two effective speeds resolved for the snapshot are exactly equal
speed_tie == memo # <<>> /\ ~FLess(memo[1], memo[2]) /\ ~FGt(memo[1], memo[2])

\* C38: when the two effective speeds are exactly equal the active side is
\* reported as not moving first, with and without trick room; so on a tie
\* step_on_throat returns the candidates unchanged and mortal_peril_alert,
\* when there is a KO threat, returns the viable switches (its 'slower' branch)
C38_TieIsNotFirst ==
    speed_tie =>
        /\ pc = "resolved" => result = FALSE
        /\ pc = "throat" => result = arg
        /\ pc = "peril" /\ has_ko_threat(battle) =>
               result = filter_suboptimal_switches(battle, all_possible_switches(battle))

C38_Witness ==
    /\ pc = "peril" /\ speed_tie /\ has_ko_threat(battle)
    /\ "TRICK_ROOM" \in battle.fields
    /\ ko_moves(damage_map, <<5, 2>>) # <<>>
    /\ result = filter_suboptimal_switches(battle, all_possible_switches(battle))
    /\ result # ko_moves(damage_map, Num(2))

\* the per-ability defensive modifiers of the defender's possible abilities
\* against move i of the snapshot
possible_modifiers(b, i) ==
    LET opponent == b.opponent_active_pokemon
        move == b.available_moves[i]
    IN  { get_defensive_modifier(opponent.possible_abilities[k], move,
                                 resolved_move_type(b, move),
                                 damage_multiplier(opponent, move.type, b.gen), opponent) :
          k \in 1..Len(opponent.possible_abilities) }

\* the recorded multiplier of move i is the type effectiveness times every
\* one of the given modifiers that is a least one, tinted lens applied last
recorded_with_least(b, map, i, modifiers) ==
    LET move == b.available_moves[i]
        raw == damage_multiplier(b.opponent_active_pokemon, move.type, b.gen)
        Lens(eff) == IF b.active_pokemon.ability = "tintedlens" /\ RLt(eff, Num(1))
                     THEN RMul(eff, Num(2)) ELSE eff
        Same(x, y) == ~RLt(x, y) /\ ~RGt(x, y)
    IN  \A m \in modifiers :
            (\A o \in modifiers : RLe(m, o)) =>
                Same(DictGet(map, move.id).multiplier, Lens(RMul(raw, m)))

\* C32 as stated: when the defender's ability is unknown and it has possible
\* abilities, the modifier applied to the type effectiveness of every move is
\* the least of the per-ability defensive modifiers of its possible
\* abilities, 0 for an immunity (freezedry's entry aside, whose effectiveness
\* lines 352-358 recompute)
C32_WorstCaseOverPossibleAbilities ==
    (pc = "once" /\ ~IsTruthy(battle.opponent_active_pokemon.ability)
                 /\ battle.opponent_active_pokemon.possible_abilities # <<>>)
    => \A i \in PlainMoves(battle) :
           recorded_with_least(battle, memo, i, possible_modifiers(battle, i))

\* C32, amended: when the defender's ability is unknown and it has possible
\* abilities, the modifier applied to the type effectiveness of every move is
\* the least of 1 and the per-ability defensive modifiers of its possible
\* abilities, 0 for an immunity: an ability that raises the damage of the
\* move never raises the recorded multiplier (freezedry's entry aside)
C32_WorstCaseAtMostOne ==
    (pc = "once" /\ ~IsTruthy(battle.opponent_active_pokemon.ability)
                 /\ battle.opponent_active_pokemon.possible_abilities # <<>>)
    => \A i \in PlainMoves(battle) :
           recorded_with_least(battle, memo, i, {Num(1)} \cup possible_modifiers(battle, i))

\* the only possible ability raises the damage of flamethrower by a quarter
\* and the map records the type effectiveness unchanged
C32_Witness ==
    /\ pc = "once"
    /\ battle.opponent_active_pokemon.ability = None
    /\ battle.opponent_active_pokemon.possible_abilities = <<"dryskin">>
    /\ \E i \in 1..Len(battle.available_moves) :
          /\ battle.available_moves[i].id = "flamethrower"
          /\ possible_modifiers(battle, i) = { <<5, 4>> }
          /\ DictGet(memo, "flamethrower").multiplier
                = damage_multiplier(battle.opponent_active_pokemon, "FIRE", battle.gen)

\* the moves whose power lines 219-246 resolve
variable_power_moves == { "weatherball", "return", "frustration", "heavyslam", "heatcrash" }

\* the expected damage of a move when line 298 starts from the given power
expected_damage_from(b, move, lm, power) ==
    damage_entry(b, [move EXCEPT !.base_power = power], lm).expected_damage

\* C33: the expected damage of a variable-power move is computed from its
\* resolved power (100 for weatherball under sun, rain, sandstorm or snow, 102
\* for return and frustration, the weight tier for heavyslam and heatcrash,
\* 100 when a weight is unknown) and not from its nominal base power
C33_ResolvedPowerIsUsed ==
    pc = "once" =>
        \A i \in 1..Len(battle.available_moves) :
            battle.available_moves[i].id \in variable_power_moves =>
                LET move == battle.available_moves[i]
                    recorded == DictGet(memo, move.id).expected_damage
                    resolved == expected_damage_from(battle, move, None,
                                                     resolved_power(battle, move))
                IN  recorded = resolved

\* C34: on the turn right after a committed switch (just_switched true on
\* entry, no forced switch pending) the candidate list holds no switch, so
\* the decision-maker commits no switch on that turn
C34_NoSwitchRightAfterSwitch ==
    is_post_switch_turn /\ ~battle.force_switch /\ pc \in {"query", "done"} =>
        /\ \A i \in 1..Len(legal_actions) : ~StartsWithSwitch(legal_actions[i])
        /\ pc = "done" /\ order.by = "llm" => order.kind # "switch"

\* the order is game-legal for the snapshot: the pass signal, a move of
\* available_moves or a switch to a member of available_switches
game_legal(b, o) ==
    \/ o.kind = "pass"
    \/ /\ o.kind = "move"
       /\ \E i \in 1..Len(b.available_moves) : b.available_moves[i].id = o.id
    \/ /\ o.kind = "switch"
       /\ \E i \in 1..Len(b.available_switches) : b.available_switches[i].species = o.id

\* C35: every committed action, whether it comes from the decision-maker in
\* choose_move or handle_switch, from select_best_damage_move or from
\* choose_random_switch, is the pass signal, a move of available_moves or a
\* switch to a member of available_switches
C35_CommittedActionIsLegal == pc = "done" => game_legal(battle, order)

\* a forced replacement whose answer was not accepted: the random switch
C35_Witness ==
    /\ pc = "done"
    /\ battle.force_switch
    /\ order.kind = "switch" /\ order.by = "random_switch"
    /\ Len(battle.available_switches) = 2
    /\ game_legal(battle, order)

\* s is t with some of its entries left out: every entry of s is matched, in
\* order, by an entry of t of its own
RECURSIVE is_subsequence(_, _)
is_subsequence(s, t) ==
    IF s = <<>> THEN TRUE
    ELSE IF t = <<>> THEN FALSE
    ELSE IF s[1] = t[1] THEN is_subsequence(Tail(s), Tail(t))
    ELSE is_subsequence(s, Tail(t))

\* C36: filter_suboptimal_switches returns a subsequence of the list it is
\* given: entries of the input in their relative order, nothing added, and
\* the input list is left as it was
C36_SwitchFilterReturnsSubsequence ==
    pc = "filtered" => is_subsequence(result, arg)

\* the first of two different options is removed and the second is kept
C36_Witness ==
    /\ pc = "filtered"
    /\ Len(arg) = 2
    /\ arg[1] # arg[2]
    /\ result = <<arg[2]>>
    /\ is_subsequence(result, arg)

\* C37: under a weather that reduces their healing (rain, heavy rain, strong
\* winds, hail, sandstorm, snow) synthesis, moonlight and morningsun are not
\* in the list filter_suboptimal_moves returns, at any HP fraction
C37_NoSunHealingInBadWeather ==
    pc = "filtered" /\ battle.weather \in healing_reducing_weather =>
        \A i \in 1..Len(result) : result[i] \notin {"synthesis", "moonlight", "morningsun"}

\* C39: every identifier of a candidate list handed to the decision-maker is
\* left as it is by sanitize_model_response, so that some response is
\* accepted as that candidate, identifiers with digits or with characters
\* other than a-z and '-' included
C39_CandidatesSurviveSanitizing ==
    pc \in {"query", "switch_query"} =>
        \A i \in 1..Len(legal_actions) :
            /\ sanitize_model_response(Chars(legal_actions[i])) = Chars(legal_actions[i])
            /\ \E run \in Runs(battle) :
                  sanitize_model_response(query_ollama(run).text) = Chars(legal_actions[i])

\* C40: after every committed switch (a tactical switch, a forced replacement
\* in handle_switch, the random fallback of choose_random_switch)
\* just_switched is true when the next decision starts
C40_SwitchSetsJustSwitched ==
    [][pc = "done" /\ order.kind = "switch" /\ order.by \in {"llm", "random_switch"}
          /\ pc' = "idle" => just_switched']_vars
====
